---- MODULE Spec2Model ----
(***************************************************************************)
(* Ingestion / dedup / queue / worker pipeline of src/index.js, and the    *)
(* RSS ingestion of the revision kept in src/unnamed/part_000.             *)
(*                                                                         *)
(* The MongoDB collections Queue, Post and Tag are the shared state.  Two  *)
(* kinds of asynchronous activity touch them: ingestion runs               *)
(* (fetchAndQueueTweetsForHandle, also reached through the routes) and     *)
(* firings of the queue worker (cron "*/1 * * * *").  Every `await` on the *)
(* store is a point where another activity may run, so each await on the   *)
(* store is one action.                                                    *)
(***************************************************************************)
EXTENDS Integers, Sequences, FiniteSets, TLC

\* ----------------------------------------------------------------- bounds
\* longest list of tweets an upstream response carries in the model
MaxTweets == 2
\* number of insertMany calls a behaviour may perform (caps the clock)
MaxInserts == 2
\* longest media array a tweet carries in the model
MaxMedia == 2

\* ------------------------------------------------------ program constants
\* tweets.slice(0, 5)
FetchLimit == 5
\* Queue.find().sort({ queuedAt: 1 }).limit(3)
BatchLimit == 3

\* items = feed.items.slice(0, 5)
FeedLimit == 5
\* publishedAt: { $gte: Date.now() - 48 * 60 * 60 * 1000 }, in hours
RecencyHours == 48
\* matches.bestMatch.rating > 0.6, in tenths
ThresholdTenths == 6

\* --------------------------------------------------------------- universes
\* tweet ids the upstream API can return, oldest tweet first
IdSeq == <<"t1", "t2", "t3", "t4">>
Ids == {IdSeq[k] : k \in 1..Len(IdSeq)}
\* activities that run the ingestion code: the 30-minute cron and the routes
Ingesters == {"cron", "route"}
\* firings of the queue worker that may be running at the same time
Workers == {"w1", "w2"}
\* const TARGET_HANDLES = [...]
TARGET_HANDLES == <<"IndianTechGuide", "bigtvtelugu", "TeluguScribe", "mufaddal_vohra">>
\* values of the `type` query parameter and of QueueItem.postType
PostTypes == {"normal_post", "breaking_news"}
\* a JavaScript null in a string-valued field
Null == "null"
\* a field the document lacks (undefined)
Absent == "absent"

\* ------------------------------------------------------------ list helpers
Range(s) == {s[k] : k \in 1..Len(s)}

Min(a, b) == IF a <= b THEN a ELSE b

\* Array.prototype.slice(0, n)
Slice(s, n) == SubSeq(s, 1, Min(n, Len(s)))

\* every list of at most n elements of S
ListsUpTo(S, n) == UNION {[1..k -> S] : k \in 0..n}

\* the lists of at most n tweet ids in which no id is repeated and older
\* tweets come first (a page of one timeline)
TimelineLists(n) ==
  {s \in ListsUpTo(Ids, n) :
     \A j, k \in 1..Len(s) : j < k =>
       \E a, b \in 1..Len(IdSeq) : a < b /\ IdSeq[a] = s[j] /\ IdSeq[b] = s[k]}

\* no element occurs twice
Distinct(s) == \A j, k \in 1..Len(s) : j # k => s[j] # s[k]

\* -------------------------------------------------------------------------
\* State
\* -------------------------------------------------------------------------
VARIABLES
  queue,      \* Queue collection: set of documents [id, queuedAt, postType,
              \* media, extendedEntities, text, url, user]
  posts,      \* Post collection: set of documents [docId, tweetId, url, tags,
              \* imageUrl, videoUrl, media, type, sourceName]
  tags,       \* Tag collection: set of documents [docId, name, slug]
  clock,      \* Date.now as seen by the queuedAt default
  ipc,        \* ingestion run: position in fetchAndQueueTweetsForHandle
  tweets,     \* ingestion run: local `tweets`
  postedIds,  \* ingestion run: local `postedIds`
  newTweets,  \* ingestion run: local `newTweets`
  ret,        \* ingestion run: value returned by the last finished run
  threw,      \* ingestion run: the last finished run ended in its catch
  lastRun,    \* candidate list of the run that finished last, while the
              \* store has not been touched since; <<"none">> otherwise
  again,      \* ingestion run: it was given the candidate list of lastRun
  wpc,        \* worker firing: position in the cron callback
  batch,      \* worker firing: local `batch`
  idx,        \* worker firing: index of `tweet` in batch (1-based)
  outcome,    \* worker firing: how the generative call of `tweet` ended
  geminiData, \* worker firing: local `geminiData`
  tagIds,     \* worker firing: local `tagIds` of getOrCreateTags
  tagPos,     \* worker firing: index of `name` in tagNames (1-based)
  tweetOf,    \* upstream API: the media fields of the tweet with a given id
  tweetInfo,  \* upstream API: text, url and user of the tweet with a given id
  reqType,    \* route: the `type` query parameter it is called with
  handle,     \* auto-fetch cron: index of `handle` in TARGET_HANDLES
              \* (1-based), 0 when no cycle is running
  rss,        \* RSS run of the cron: position in fetchAndQueueRSS and its locals
  rssRoute,   \* RSS run of GET /api/trigger-rss-fetch: the same
  queueFile,  \* file-queue revision: the array stored in QUEUE_FILE
  currentQueue \* file-queue revision, route: local `currentQueue`

ingestVars == <<ipc, tweets, postedIds, newTweets, ret, threw>>
workerVars == <<wpc, batch, idx, outcome, geminiData, tagIds, tagPos>>
histVars == <<lastRun, again>>
\* what the callers of the ingestion code and the upstream API hold
envVars == <<tweetOf, tweetInfo, reqType, handle>>
\* the queue file and what the route has read from it
fileVars == <<queueFile, currentQueue>>
vars ==
  <<queue, posts, tags, clock, ingestVars, workerVars, histVars, envVars, rss, rssRoute,
    fileVars>>

NoRun == <<"none">>

\* -------------------------------------------------------------------------
\* Store operations
\* -------------------------------------------------------------------------

\* Post.find({ tweetId: { $in: ids } }).distinct('tweetId')
PostDistinctTweetIds(ids) == {p.tweetId : p \in posts} \cap ids

\* Queue.find({ id: { $in: ids } }).distinct('id')
QueueDistinctIds(ids) == {d.id : d \in queue} \cap ids

\* a Queue collection without the unique index on id
QueueIdNeverTaken(q, id) == FALSE

\* queueSchema: id is `unique: true`; the index rejects a document whose id
\* is the id of a stored document
QueueIdTaken(q, id) == \E d \in q : d.id = id

\* Queue.insertMany(docs) with the default { ordered: true }: documents are
\* written in order and the first duplicate key stops the operation, so the
\* number written is the length of the longest prefix that has no id of the
\* collection and no repeated id.
RECURSIVE InsertedPrefix(_, _, _)
InsertedPrefix(q, ids, k) ==
  IF k > Len(ids) THEN Len(ids)
  ELSE IF QueueIdTaken(q, ids[k]) \/ ids[k] \in Range(SubSeq(ids, 1, k - 1))
       THEN k - 1
       ELSE InsertedPrefix(q, ids, k + 1)

insertMany(q, ids) == InsertedPrefix(q, ids, 1)

\* a filter that stops at the first new tweet
FilterNewFirstOnly(tw, ignoredIds) ==
  Slice(SelectSeq(tw, LAMBDA t : t \notin ignoredIds), 1)

\* const newTweets = tweets.filter(t => !ignoredIds.has(t.id))
FilterNew(tw, ignoredIds) == SelectSeq(tw, LAMBDA t : t \notin ignoredIds)

\* -------------------------------------------------------------------------
\* fetchAndQueueTweetsForHandle (and the routes that run the same steps)
\* -------------------------------------------------------------------------

\* the run ends: locals go out of scope, the result is what the caller sees
IngestReturn(i, count, caught) ==
  /\ ipc' = [ipc EXCEPT ![i] = "idle"]
  /\ tweets' = [tweets EXCEPT ![i] = <<>>]
  /\ postedIds' = [postedIds EXCEPT ![i] = {}]
  /\ newTweets' = [newTweets EXCEPT ![i] = <<>>]
  /\ ret' = [ret EXCEPT ![i] = count]
  /\ threw' = [threw EXCEPT ![i] = caught]

\* the upstream request fails (!response.ok, or fetch / response.json throw):
\* return 0 before any store access
IngestFetchFail(i) ==
  /\ ipc[i] = "idle"
  /\ IngestReturn(i, 0, FALSE)
  /\ UNCHANGED <<queue, posts, tags, clock, workerVars>>

\* the upstream answers with the list tw; tweets = tweets.slice(0, 5);
\* an empty list returns 0, otherwise the first existence query
\* (Post ... distinct('tweetId')) is answered
IngestFetch(i, tw) ==
  /\ ipc[i] = "idle"
  /\ clock < MaxInserts
  /\ LET sliced == Slice(tw, FetchLimit) IN
       /\ IF Len(sliced) = 0
            THEN /\ IngestReturn(i, 0, FALSE)
            ELSE /\ ipc' = [ipc EXCEPT ![i] = "queued"]
                 /\ tweets' = [tweets EXCEPT ![i] = sliced]
                 /\ postedIds' = [postedIds EXCEPT ![i] = PostDistinctTweetIds(Range(sliced))]
                 /\ ret' = [ret EXCEPT ![i] = 0]
                 /\ threw' = [threw EXCEPT ![i] = FALSE]
                 /\ UNCHANGED newTweets
  /\ UNCHANGED <<queue, posts, tags, clock, workerVars>>

\* the second existence query (Queue ... distinct('id')) is answered;
\* ignoredIds and newTweets are computed; no new tweet returns 0
IngestReadQueue(i) ==
  /\ ipc[i] = "queued"
  /\ LET queuedIds == QueueDistinctIds(Range(tweets[i]))
         ignoredIds == postedIds[i] \cup queuedIds
         fresh == FilterNew(tweets[i], ignoredIds)
     IN IF Len(fresh) = 0
          THEN /\ IngestReturn(i, 0, FALSE)
          ELSE /\ ipc' = [ipc EXCEPT ![i] = "insert"]
               /\ newTweets' = [newTweets EXCEPT ![i] = fresh]
               /\ UNCHANGED <<tweets, postedIds, ret, threw>>
  /\ UNCHANGED <<queue, posts, tags, clock, workerVars>>

\* postType: "normal_post" in fetchAndQueueTweetsForHandle, the `type` query
\* parameter (type || "normal_post") in the route
postTypeOf(i) == IF i = "cron" THEN "normal_post" ELSE reqType

\* the parameter userName: the handle the auto-fetch loop is at, or the
\* query parameter of a route (a route answers 400 when it is empty)
userNameOf(i) ==
  IF i = "cron" /\ handle > 0 THEN <<TARGET_HANDLES[handle]>> ELSE <<"userName">>

\* user: t.user || { screen_name: userName, name: userName }
queueUser(i, id) ==
  IF tweetInfo[id].user.present
    THEN [screen_name |-> tweetInfo[id].user.screen_name, name |-> tweetInfo[id].user.name]
    ELSE [screen_name |-> userNameOf(i), name |-> userNameOf(i)]

\* newTweets.map(t => ({ id: t.id, text: t.text, url: t.url,
\* media: t.media || [], extendedEntities: t.extendedEntities || {},
\* user: ..., postType })) with the queuedAt default of the schema
queueDoc(i, id, now) ==
  [id |-> id, queuedAt |-> now, postType |-> postTypeOf(i),
   media |-> tweetOf[id].media, extendedEntities |-> tweetOf[id].extendedEntities,
   text |-> tweetInfo[id].text, url |-> tweetInfo[id].url, user |-> queueUser(i, id)]

\* await Queue.insertMany(queueDocs): every document written gets the
\* queuedAt default; a duplicate key makes insertMany throw, the catch
\* returns 0; otherwise the run returns newTweets.length
IngestInsert(i) ==
  /\ ipc[i] = "insert"
  /\ LET n == insertMany(queue, newTweets[i]) IN
       /\ queue' = queue \cup {queueDoc(i, newTweets[i][k], clock) : k \in 1..n}
       /\ IF n < Len(newTweets[i])
            THEN IngestReturn(i, 0, TRUE)
            ELSE IngestReturn(i, Len(newTweets[i]), FALSE)
  /\ clock' = clock + 1
  /\ UNCHANGED <<posts, tags, workerVars>>

\* -------------------------------------------------------------------------
\* getOrCreateTags: slug derivation
\* -------------------------------------------------------------------------

\* Tag names are lists of characters: "A" stands for the upper-case ASCII
\* letters, "a" and "b" for the lower-case ones, "!" for ASCII punctuation
\* and "te" for a letter outside ASCII.

\* String.prototype.toLowerCase, one character
LowerChar(c) == IF c = "A" THEN "a" ELSE c

\* \w of a JavaScript regular expression without the u flag: [A-Za-z0-9_]
IsWordChar(c) == c \in {"A", "a", "b"}

MapSeq(s, Op(_)) == [k \in 1..Len(s) |-> Op(s[k])]

\* name.toLowerCase().replace(/ /g, '-').replace(/[^\w-]+/g, '')
slugOf(name) ==
  LET lowered == MapSeq(name, LowerChar)
      hyphened == MapSeq(lowered, LAMBDA c : IF c = " " THEN "-" ELSE c)
  IN SelectSeq(hyphened, LAMBDA c : IsWordChar(c) \/ c = "-")

\* Tag.findOne({ slug }): the stored tag with that slug, as a set (the slug
\* index is unique, so the set has at most one element)
TagFindOne(slug) == {t \in tags : t.slug = slug}

\* a Tag collection without validation and without unique indexes
TagCreateNeverRejected(name, slug) == FALSE

\* Tag.create({ name, slug }) is rejected when a required string is empty
\* (name and slug are `required: true`) or when name or slug is the name or
\* slug of a stored tag (both are `unique: true`)
TagCreateRejected(name, slug) ==
  \/ Len(name) = 0
  \/ Len(slug) = 0
  \/ \E t \in tags : t.name = name \/ t.slug = slug

\* -------------------------------------------------------------------------
\* formatTweetWithGemini
\* -------------------------------------------------------------------------

\* what `geminiData` can hold: null (the catch of formatTweetWithGemini, or
\* the JSON text "null"), another falsy JSON value, or a truthy JSON value
\* seen through the three reads the worker makes of it: title (a string, a
\* value of another type, or undefined) and tags_en (an array of strings, or
\* anything that is not an array)
GNull == [kind |-> "null", title |-> "undefined", tagsIsArray |-> FALSE, tags_en |-> <<>>]
GFalsy == [kind |-> "falsy", title |-> "undefined", tagsIsArray |-> FALSE, tags_en |-> <<>>]
GObject(title, isArray, names) ==
  [kind |-> "truthy", title |-> title, tagsIsArray |-> isArray, tags_en |-> names]

\* JSON values the service can answer with; tagLists are the arrays of tag
\* names it uses
JsonValues(tagLists) ==
  {GNull, GFalsy}
    \cup {GObject(t, TRUE, names) : t \in {"string", "number", "undefined"}, names \in tagLists}
    \cup {GObject(t, FALSE, <<>>) : t \in {"string", "undefined"}}

\* outcomes of model.generateContent(prompt) followed by JSON.parse: the
\* call rejects, the text is not JSON, or the text parses to a value
GeminiOutcomes(tagLists) ==
  {[how |-> "throws", value |-> GNull], [how |-> "nonjson", value |-> GNull]}
    \cup {[how |-> "json", value |-> v] : v \in JsonValues(tagLists)}

\* a catch that returns an empty object instead of null
formatTweetWithGeminiEmptyObject(o) ==
  IF o.how = "json" THEN o.value ELSE GObject("undefined", FALSE, <<>>)

\* try { return JSON.parse(result.response.text()) } catch (e) { return null }
formatTweetWithGemini(o) ==
  IF o.how = "json" THEN o.value ELSE GNull

\* if (geminiData)
Truthy(g) == g.kind = "truthy"

\* the shape the prompt asks for: a title string and an array of tag names
WellFormed(g) == Truthy(g) /\ g.title = "string" /\ g.tagsIsArray

\* -------------------------------------------------------------------------
\* Media and post type of an item (cron worker, steps 3 to 5)
\* -------------------------------------------------------------------------

\* A media entry is [type, media_url_https, original_info |-> [width, height],
\* sizes |-> [w, h] (sizes.large), hasVariants, variants]; a variant is
\* [content_type, bitrate, url].  A number that is 0 stands for a field that
\* is absent: `x || y` cannot tell the two apart.  extendedEntities is
\* [hasMedia, media]: the object may lack its media array.

\* a || b on numbers
OrElse(a, b) == IF a # 0 THEN a ELSE b

\* tweet.extendedEntities?.media || tweet.media || []  (an array, even an
\* empty one, is truthy)
mediaEntities(tweet) ==
  IF tweet.extendedEntities.hasMedia THEN tweet.extendedEntities.media ELSE tweet.media

\* a filter that lets every media entry through
photoEntitiesUnfiltered(tweet) == mediaEntities(tweet)

\* mediaEntities.filter(m => m.type === 'photo')
photoEntities(tweet) == SelectSeq(mediaEntities(tweet), LAMBDA m : m.type = "photo")

\* the mediaArray.push(...) of the loop over photoEntities.entries()
mediaArray(tweet) ==
  LET ph == photoEntities(tweet) IN
    [k \in 1..Len(ph) |->
       [mediaType |-> "image",
        url |-> ph[k].media_url_https,
        width |-> OrElse(ph[k].original_info.width, OrElse(ph[k].sizes.w, 0)),
        height |-> OrElse(ph[k].original_info.height, OrElse(ph[k].sizes.h, 0))]]

\* let mainImageUrl = null; if (index === 0) mainImageUrl = originalUrl
mainImageUrl(tweet) ==
  LET ph == photoEntities(tweet) IN
    IF Len(ph) > 0 THEN ph[1].media_url_https ELSE Null

\* a sort that puts the lowest bitrate first
InsertAscending(sorted, v) ==
  LET n == Cardinality({k \in 1..Len(sorted) : sorted[k].bitrate <= v.bitrate})
  IN SubSeq(sorted, 1, n) \o <<v>> \o SubSeq(sorted, n + 1, Len(sorted))

\* one step of the stable sort by (b.bitrate || 0) - (a.bitrate || 0): v goes
\* behind every element whose bitrate is not lower
InsertDescending(sorted, v) ==
  LET n == Cardinality({k \in 1..Len(sorted) : sorted[k].bitrate >= v.bitrate})
  IN SubSeq(sorted, 1, n) \o <<v>> \o SubSeq(sorted, n + 1, Len(sorted))

\* Array.prototype.sort with that comparator (stable)
RECURSIVE SortByBitrate(_)
SortByBitrate(s) ==
  IF Len(s) = 0 THEN <<>>
  ELSE InsertDescending(SortByBitrate(SubSeq(s, 1, Len(s) - 1)), s[Len(s)])

\* variants.filter(v => v.content_type === "video/mp4").sort(...)[0], as the
\* list it is the head of
bestVideo(variants) ==
  SortByBitrate(SelectSeq(variants, LAMBDA v : v.content_type = "video/mp4"))

\* a resolution that takes the first video entry wherever it stands
tweetVideoAnyEntry(tweet) ==
  LET vids == SelectSeq(mediaEntities(tweet), LAMBDA m : m.type = "video" /\ m.hasVariants) IN
    IF Len(vids) > 0
      THEN LET best == bestVideo(vids[1].variants) IN
             IF Len(best) > 0 THEN best[1].url ELSE Null
      ELSE Null

\* let tweetVideo = null; if (mediaEntities.length > 0 &&
\* mediaEntities[0].type === 'video' && mediaEntities[0].video_info?.variants)
\* { ...; if (bestVideo) tweetVideo = bestVideo.url }
tweetVideo(tweet) ==
  LET m == mediaEntities(tweet) IN
    IF Len(m) > 0 /\ m[1].type = "video" /\ m[1].hasVariants
      THEN LET best == bestVideo(m[1].variants) IN
             IF Len(best) > 0 THEN best[1].url ELSE Null
      ELSE Null

\* a resolution that always keeps the requested type
finalPostTypeAsRequested(postType, video) == postType

\* step 5: if (tweetVideo) finalPostType = (tweet.postType === "normal_post")
\* ? "normal_video" : tweet.postType; else finalPostType = "normal_post"
finalPostType(postType, video) ==
  IF video # Null
    THEN IF postType = "normal_post" THEN "normal_video" ELSE postType
    ELSE "normal_post"

\* -------------------------------------------------------------------------
\* Author of an item (cron worker, steps 1 and 2) and the generative request
\* -------------------------------------------------------------------------

\* Handles, display names and urls are lists of characters; the empty list
\* stands for null, undefined and "" (all falsy).  The two placeholder names
\* are written as one character each.
Unknown == <<"Unknown">>
TwitterUser == <<"Twitter User">>

\* the alternatives twitter\.com and x\.com of the pattern, in its order
SocialHosts == <<
  <<"t", "w", "i", "t", "t", "e", "r", ".", "c", "o", "m">>,
  <<"x", ".", "c", "o", "m">> >>

\* if (!url) return null; const match = url.match(
\* /(?:twitter\.com|x\.com)\/([^\/]+)/); return match ? match[1] : null
\* The leftmost place where a host, a slash and one more character that is
\* no slash stand; the group runs up to the next slash or the end.
getHandleFromUrl(url) ==
  LET hits == {m \in (1..Len(url)) \X (1..Len(SocialHosts)) :
                 LET h == SocialHosts[m[2]] IN
                   /\ m[1] + Len(h) + 1 <= Len(url)
                   /\ SubSeq(url, m[1], m[1] + Len(h) - 1) = h
                   /\ url[m[1] + Len(h)] = "/"
                   /\ url[m[1] + Len(h) + 1] # "/"}
  IN IF hits = {} THEN <<>>
     ELSE LET first == CHOOSE m \in hits : \A n \in hits : m[1] < n[1] \/ (m[1] = n[1] /\ m[2] <= n[2])
              from == first[1] + Len(SocialHosts[first[2]]) + 1
              to == CHOOSE e \in from..Len(url) :
                      /\ \A j \in from..e : url[j] # "/"
                      /\ e = Len(url) \/ url[e + 1] = "/"
          IN SubSeq(url, from, to)

\* a test that knows no placeholder names
IsPlaceholderEmptyOnly(h) == h = <<>>

\* !authorHandle || authorHandle === "Unknown" || authorHandle === "Twitter User"
IsPlaceholder(h) == h = <<>> \/ h = Unknown \/ h = TwitterUser

\* let authorHandle = tweet.user?.screen_name; if (placeholder) { const
\* extracted = getHandleFromUrl(tweet.url); if (extracted) authorHandle =
\* extracted }
authorHandle(tweet) ==
  LET extracted == getHandleFromUrl(tweet.url) IN
    IF IsPlaceholder(tweet.user.screen_name) /\ extracted # <<>>
      THEN extracted
      ELSE tweet.user.screen_name

\* let authorDisplayName = tweet.user?.name; inside the same branches:
\* if (!authorDisplayName || authorDisplayName === "Twitter User")
\* authorDisplayName = extracted
authorDisplayName(tweet) ==
  LET extracted == getHandleFromUrl(tweet.url) IN
    IF /\ IsPlaceholder(tweet.user.screen_name) /\ extracted # <<>>
       /\ (tweet.user.name = <<>> \/ tweet.user.name = TwitterUser)
      THEN extracted
      ELSE tweet.user.name

\* let dbSourceAuthor = null; if (authorHandle && authorHandle !== "Unknown"
\* && authorHandle !== "Twitter User") dbSourceAuthor = authorDisplayName ?
\* `${authorDisplayName} (@${authorHandle})` : `@${authorHandle}`
dbSourceAuthor(tweet) ==
  IF IsPlaceholder(authorHandle(tweet)) THEN <<>>
  ELSE IF authorDisplayName(tweet) # <<>>
         THEN authorDisplayName(tweet) \o <<" ", "(", "@">> \o authorHandle(tweet) \o <<")">>
         ELSE <<"@">> \o authorHandle(tweet)

\* const dbSourceName = dbSourceAuthor || "Twitter"
dbSourceName(tweet) ==
  IF dbSourceAuthor(tweet) # <<>> THEN dbSourceAuthor(tweet) ELSE <<"Twitter">>

\* formatTweetWithGemini is declared without parameters, so the arguments of
\* the call formatTweetWithGemini(tweet.text, tweet.url, dbSourceAuthor) are
\* dropped; `prompt` is a template literal without substitutions
prompt(text, tweetUrl, sourceName) == <<"Act as a professional Telugu news editor.">>

\* the request of the call formatTweetWithGemini(tweet.text, tweet.url,
\* dbSourceAuthor): model.generateContent(prompt)
geminiRequest(tweet) == prompt(tweet.text, tweet.url, dbSourceAuthor(tweet))

\* -------------------------------------------------------------------------
\* CRON 1: process queue
\* -------------------------------------------------------------------------

\* Queue.find().limit(n): n documents in whatever order the store yields
AnyOrder(q, n) ==
  LET m == Min(n, Cardinality(q)) IN
    {b \in [1..m -> q] : \A j, k \in 1..m : j < k => b[j] # b[k]}

\* Queue.find().sort({ queuedAt: 1 }).limit(n): the n documents with the
\* smallest queuedAt, oldest first; documents with equal queuedAt come in
\* whatever order the store yields
OldestFirst(q, n) ==
  LET m == Min(n, Cardinality(q)) IN
    {b \in [1..m -> q] :
       /\ \A j, k \in 1..m : j < k => b[j] # b[k] /\ b[j].queuedAt <= b[k].queuedAt
       /\ \A d \in q \ Range(b) : \A k \in 1..m : b[k].queuedAt <= d.queuedAt}

\* const tagNames = geminiData.tags_en, as getOrCreateTags sees it:
\* if (!tagNames || !Array.isArray(tagNames)) return []
TagNamesOf(g) == IF g.tagsIsArray THEN g.tags_en ELSE <<>>

\* new Post({ ..., url: '', sourceName: dbSourceName, tweetId: tweet.id,
\* imageUrl: mainImageUrl, videoUrl: tweetVideo, media: mediaArray,
\* tags: tagIds, type: finalPostType, ... }); docId is the _id the document
\* gets, oid
NewPost(tweet, ids, oid) ==
  [docId |-> oid, tweetId |-> tweet.id, url |-> "", tags |-> ids,
   imageUrl |-> mainImageUrl(tweet), videoUrl |-> tweetVideo(tweet),
   media |-> mediaArray(tweet),
   type |-> finalPostType(tweet.postType, tweetVideo(tweet)),
   sourceName |-> dbSourceName(tweet)]

\* postSchema: title is `required: true`, so validation fails without one
PostInvalid(g) == g.title = "undefined"

\* a schema without the unique indexes
PostKeyNeverTaken(ps, post) == FALSE

\* postSchema: tweetId and url are `unique: true, sparse: true`; a sparse
\* index leaves out only the documents that lack the field (the worker sets
\* both fields on every Post)
PostKeyTaken(ps, post) ==
  \E p \in ps :
    \/ post.tweetId # Absent /\ p.tweetId = post.tweetId
    \/ post.url # Absent /\ p.url = post.url

\* geminiData.title.substring(0, 20) in the log line after the save throws
\* when title is not a string
LogThrows(g) == g.title # "string"

\* the end of the loop body is reached: next item, or the callback returns
Advance(w) ==
  /\ outcome' = [outcome EXCEPT ![w] = "none"]
  /\ geminiData' = [geminiData EXCEPT ![w] = GNull]
  /\ tagIds' = [tagIds EXCEPT ![w] = <<>>]
  /\ tagPos' = [tagPos EXCEPT ![w] = 0]
  /\ IF idx[w] < Len(batch[w])
       THEN /\ idx' = [idx EXCEPT ![w] = idx[w] + 1]
            /\ wpc' = [wpc EXCEPT ![w] = "gemini"]
            /\ UNCHANGED batch
       ELSE /\ idx' = [idx EXCEPT ![w] = 0]
            /\ wpc' = [wpc EXCEPT ![w] = "idle"]
            /\ batch' = [batch EXCEPT ![w] = <<>>]

\* the try block of the item is left (normally or through the catch):
\* if (batch.length > 1) await sleep(6000)
AfterItem(w) ==
  IF Len(batch[w]) > 1
    THEN /\ wpc' = [wpc EXCEPT ![w] = "sleep"]
         /\ UNCHANGED <<batch, idx, outcome, geminiData, tagIds, tagPos>>
    ELSE Advance(w)

\* for (const tweet of batch): the item being processed
Item(w) == batch[w][idx[w]]

\* a catch that removes the document of the failing item
CatchDropsItem(w) ==
  /\ queue' = queue \ {Item(w)}
  /\ AfterItem(w)

\* a catch that marks the document of the failing item
CatchMarksItem(w) ==
  /\ queue' = {IF d = Item(w) THEN [d EXCEPT !.postType = "failed"] ELSE d : d \in queue}
  /\ AfterItem(w)

\* catch (err) { console.error(...) }: the item's document is left alone
Catch(w) ==
  /\ UNCHANGED queue
  /\ AfterItem(w)

\* const batch = await Queue.find().sort({ queuedAt: 1 }).limit(3);
\* an empty batch returns at once and changes nothing
WorkerPull(w) ==
  /\ wpc[w] = "idle"
  /\ queue # {}
  /\ \E b \in OldestFirst(queue, BatchLimit) :
       batch' = [batch EXCEPT ![w] = b]
  /\ idx' = [idx EXCEPT ![w] = 1]
  /\ wpc' = [wpc EXCEPT ![w] = "gemini"]
  /\ UNCHANGED <<queue, posts, tags, clock, ingestVars, outcome, geminiData, tagIds, tagPos>>

\* const geminiData = await formatTweetWithGemini(...); if (geminiData)
\* enters getOrCreateTags, which returns [] without a store access when
\* there is no array of names
WorkerGemini(w, o) ==
  /\ wpc[w] = "gemini"
  /\ LET g == formatTweetWithGemini(o) IN
       /\ outcome' = [outcome EXCEPT ![w] = o.how]
       /\ geminiData' = [geminiData EXCEPT ![w] = g]
       /\ tagIds' = [tagIds EXCEPT ![w] = <<>>]
       /\ IF ~Truthy(g)
            THEN /\ wpc' = [wpc EXCEPT ![w] = "drop"]
                 /\ UNCHANGED tagPos
            ELSE IF Len(TagNamesOf(g)) = 0
                   THEN /\ wpc' = [wpc EXCEPT ![w] = "save"]
                        /\ UNCHANGED tagPos
                   ELSE /\ wpc' = [wpc EXCEPT ![w] = "tagFind"]
                        /\ tagPos' = [tagPos EXCEPT ![w] = 1]
  /\ UNCHANGED <<queue, posts, tags, clock, ingestVars, batch, idx>>

\* getOrCreateTags: the loop moves to the next name, or returns tagIds
NextTag(w) ==
  IF tagPos[w] < Len(TagNamesOf(geminiData[w]))
    THEN /\ tagPos' = [tagPos EXCEPT ![w] = tagPos[w] + 1]
         /\ wpc' = [wpc EXCEPT ![w] = "tagFind"]
    ELSE /\ tagPos' = [tagPos EXCEPT ![w] = 0]
         /\ wpc' = [wpc EXCEPT ![w] = "save"]

\* let tag = await Tag.findOne({ slug }); a tag found is pushed
WorkerTagFind(w) ==
  /\ wpc[w] = "tagFind"
  /\ LET name == TagNamesOf(geminiData[w])[tagPos[w]]
         found == TagFindOne(slugOf(name))
     IN IF found # {}
          THEN /\ \E t \in found : tagIds' = [tagIds EXCEPT ![w] = Append(tagIds[w], t)]
               /\ NextTag(w)
          ELSE /\ wpc' = [wpc EXCEPT ![w] = "tagCreate"]
               /\ UNCHANGED <<tagIds, tagPos>>
  /\ UNCHANGED <<queue, posts, tags, clock, ingestVars, batch, idx, outcome, geminiData>>

\* a getOrCreateTags without its try: a rejected create ends in the catch
\* of the item
WorkerTagCreateThrows(w) ==
  /\ wpc[w] = "tagCreate"
  /\ LET name == TagNamesOf(geminiData[w])[tagPos[w]]
         tag == [docId |-> Cardinality(tags), name |-> name, slug |-> slugOf(name)]
     IN IF TagCreateRejected(name, tag.slug)
          THEN /\ Catch(w)
               /\ UNCHANGED tags
          ELSE /\ tags' = tags \cup {tag}
               /\ tagIds' = [tagIds EXCEPT ![w] = Append(tagIds[w], tag)]
               /\ IF tagPos[w] < Len(TagNamesOf(geminiData[w]))
                    THEN /\ tagPos' = [tagPos EXCEPT ![w] = tagPos[w] + 1]
                         /\ wpc' = [wpc EXCEPT ![w] = "tagFind"]
                    ELSE /\ tagPos' = [tagPos EXCEPT ![w] = 0]
                         /\ wpc' = [wpc EXCEPT ![w] = "save"]
               /\ UNCHANGED <<queue, batch, idx, outcome, geminiData>>
  /\ UNCHANGED <<posts, clock, ingestVars>>

\* if (!tag) tag = await Tag.create({ name, slug }); a rejected create is
\* caught inside getOrCreateTags and the name is skipped; docId is the _id
\* the document gets
WorkerTagCreate(w) ==
  /\ wpc[w] = "tagCreate"
  /\ LET name == TagNamesOf(geminiData[w])[tagPos[w]]
         tag == [docId |-> Cardinality(tags), name |-> name, slug |-> slugOf(name)]
     IN IF TagCreateRejected(name, tag.slug)
          THEN UNCHANGED <<tags, tagIds>>
          ELSE /\ tags' = tags \cup {tag}
               /\ tagIds' = [tagIds EXCEPT ![w] = Append(tagIds[w], tag)]
  /\ NextTag(w)
  /\ UNCHANGED <<queue, posts, clock, ingestVars, batch, idx, outcome, geminiData>>

\* a worker that deletes the document of the item before it saves the Post
WorkerSaveDeletesFirst(w) ==
  /\ wpc[w] = "save"
  /\ queue' = queue \ {Item(w)}
  /\ LET post == NewPost(Item(w), tagIds[w], Cardinality(posts)) IN
       IF PostInvalid(geminiData[w]) \/ PostKeyTaken(posts, post)
         THEN /\ AfterItem(w)
              /\ UNCHANGED posts
         ELSE /\ posts' = posts \cup {post}
              /\ IF LogThrows(geminiData[w])
                   THEN AfterItem(w)
                   ELSE /\ wpc' = [wpc EXCEPT ![w] = "delete"]
                        /\ UNCHANGED <<batch, idx, outcome, geminiData, tagIds, tagPos>>
  /\ UNCHANGED <<tags, clock, ingestVars>>

\* await newPost.save(), then the log line; a validation error, a duplicate
\* key or the log line's TypeError lands in the catch of the item
WorkerSave(w) ==
  /\ wpc[w] = "save"
  /\ LET post == NewPost(Item(w), tagIds[w], Cardinality(posts)) IN
       IF PostInvalid(geminiData[w]) \/ PostKeyTaken(posts, post)
         THEN /\ Catch(w)
              /\ UNCHANGED posts
         ELSE /\ posts' = posts \cup {post}
              /\ IF LogThrows(geminiData[w])
                   THEN Catch(w)
                   ELSE /\ wpc' = [wpc EXCEPT ![w] = "delete"]
                        /\ UNCHANGED <<queue, batch, idx, outcome, geminiData, tagIds, tagPos>>
  /\ UNCHANGED <<tags, clock, ingestVars>>

\* await Queue.deleteOne({ _id: tweet._id }) after the save
WorkerDelete(w) ==
  /\ wpc[w] = "delete"
  /\ queue' = queue \ {Item(w)}
  /\ AfterItem(w)
  /\ UNCHANGED <<posts, tags, clock, ingestVars>>

\* a deletion without a filter on the document, which empties the Queue
WorkerDropAll(w) ==
  /\ wpc[w] = "drop"
  /\ queue' = {}
  /\ AfterItem(w)
  /\ UNCHANGED <<posts, tags, clock, ingestVars>>

\* else branch: "Gemini failed", await Queue.deleteOne({ _id: tweet._id })
WorkerDrop(w) ==
  /\ wpc[w] = "drop"
  /\ queue' = queue \ {Item(w)}
  /\ AfterItem(w)
  /\ UNCHANGED <<posts, tags, clock, ingestVars>>

\* the 6 s pause is over
WorkerSleep(w) ==
  /\ wpc[w] = "sleep"
  /\ Advance(w)
  /\ UNCHANGED <<queue, posts, tags, clock, ingestVars>>

\* -------------------------------------------------------------------------
\* CRON 2: auto-fetch
\* -------------------------------------------------------------------------

\* for (const handle of TARGET_HANDLES): the index after h, 0 after the last
NextHandle(h) == IF h < Len(TARGET_HANDLES) THEN h + 1 ELSE 0

\* the timer fires and the loop starts with the first handle
CycleStart ==
  /\ handle = 0
  /\ ipc["cron"] = "idle"
  /\ handle' = 1
  /\ UNCHANGED <<queue, posts, tags, clock, ingestVars, workerVars, histVars, tweetOf, tweetInfo,
                 reqType, rss, rssRoute, fileVars>>

\* await fetchAndQueueTweetsForHandle(handle); await sleep(2000): a step of
\* the run for the current handle; when the run returns (it catches every
\* error and returns 0), the loop moves to the next handle
CycleRun(step) ==
  /\ handle > 0
  /\ step
  /\ handle' = IF ipc'["cron"] = "idle" THEN NextHandle(handle) ELSE handle
  /\ UNCHANGED <<histVars, tweetOf, tweetInfo, reqType, rss, rssRoute, fileVars>>

\* -------------------------------------------------------------------------
\* The worker of the revision with RSS ingestion (src/unnamed/part_000)
\* -------------------------------------------------------------------------

\* item.url: twitterapi.io gives every tweet its status url, which ends in
\* the tweet id; the model writes the id for it
urlOf(item) == item.id

\* let imageUrl = item.imageUrl; if (!imageUrl && item.extendedEntities
\* ?.media?.[0]) imageUrl = item.extendedEntities.media[0].media_url_https
\* (the routes that queue tweets set no imageUrl)
imageUrlRss(item) ==
  IF item.extendedEntities.hasMedia /\ Len(item.extendedEntities.media) > 0
    THEN item.extendedEntities.media[1].media_url_https
    ELSE Absent

\* the urls bestVideo can have: mediaList[0].type === "video", variants =
\* video_info?.variants || [], filter mp4, sort((a, b) => b.bitrate -
\* a.bitrate)[0].  A variant without bitrate makes the comparator answer
\* NaN, and the order the sort leaves is then up to the engine.
tweetVideoRss(item) ==
  LET m == mediaEntities(item) IN
    IF Len(m) > 0 /\ m[1].type = "video"
      THEN LET mp4 == SelectSeq(m[1].variants, LAMBDA v : v.content_type = "video/mp4") IN
             IF Len(mp4) = 0 THEN {Null}
             ELSE IF \E k \in 1..Len(mp4) : mp4[k].bitrate = 0
                    THEN {mp4[k].url : k \in 1..Len(mp4)}
                    ELSE {SortByBitrate(mp4)[1].url}
      ELSE {Null}

\* let finalPostType = "normal_post"; ... if (bestVideo) { tweetVideo =
\* bestVideo.url; finalPostType = "normal_video" }
finalPostTypeRss(postType, video) ==
  IF video # Null THEN "normal_video" ELSE "normal_post"

\* new Post({ ..., url: item.url, imageUrl, videoUrl: tweetVideo, tags: [],
\* type: finalPostType, ... }): no tweetId, no media
NewPostRss(item, video, oid) ==
  [docId |-> oid, tweetId |-> Absent, url |-> urlOf(item), tags |-> <<>>,
   imageUrl |-> imageUrlRss(item), videoUrl |-> video, media |-> <<>>,
   type |-> finalPostTypeRss(item.postType, video)]

\* the try block of the item is left: await sleep(5000), whatever the size
\* of the batch
AfterItemRss(w) ==
  /\ wpc' = [wpc EXCEPT ![w] = "sleep"]
  /\ UNCHANGED <<batch, idx, outcome, geminiData, tagIds, tagPos>>

\* await newPost.save(); a validation error or a duplicate key lands in the
\* catch of the item, which leaves its document alone
WorkerSaveRss(w) ==
  /\ wpc[w] = "save"
  /\ \E video \in tweetVideoRss(Item(w)) :
       LET post == NewPostRss(Item(w), video, Cardinality(posts)) IN
         IF PostInvalid(geminiData[w]) \/ PostKeyTaken(posts, post)
           THEN /\ AfterItemRss(w)
                /\ UNCHANGED posts
           ELSE /\ posts' = posts \cup {post}
                /\ wpc' = [wpc EXCEPT ![w] = "delete"]
                /\ UNCHANGED <<batch, idx, outcome, geminiData, tagIds, tagPos>>
  /\ UNCHANGED <<queue, tags, clock, ingestVars>>

\* await Queue.deleteOne({ _id: item._id }), after the save or after
\* "Gemini Failed"
WorkerDeleteRss(w) ==
  /\ wpc[w] \in {"delete", "drop"}
  /\ queue' = queue \ {Item(w)}
  /\ AfterItemRss(w)
  /\ UNCHANGED <<posts, tags, clock, ingestVars>>

\* -------------------------------------------------------------------------
\* fetchAndQueueRSS (src/unnamed/part_000)
\* -------------------------------------------------------------------------

\* const RSS_FEEDS = [{ name, url }, ...]: the names
RSS_FEEDS ==
  <<"NTV Telugu", "Google News", "ABP Telugu", "TV9 Telugu", "V6 Telugu",
    "10TV Telugu", "Gulte", "Namasthe Telangana">>

\* Titles and texts are lists of characters; "Title: ", "Summary: " and
\* "\n" are written as one character each.

\* first.replace(/\s+/g, '') of compareTwoStrings
NoSpaces(str) == SelectSeq(str, LAMBDA c : c # " ")

\* the bigrams of a string, in order
Bigrams(str) == [k \in 1..(Len(str) - 1) |-> <<str[k], str[k + 1]>>]

\* intersectionSize of compareTwoStrings: every bigram of the second string
\* takes one of the occurrences of that bigram in the first, while any is
\* left
IntersectionSize(first, second) ==
  LET b1 == Bigrams(first)
      b2 == Bigrams(second)
      inFirst(b) == Cardinality({j \in 1..Len(b1) : b1[j] = b})
      rank(k) == Cardinality({j \in 1..k : b2[j] = b2[k]})
  IN Cardinality({k \in 1..Len(b2) : rank(k) <= inFirst(b2[k])})

\* stringSimilarity.compareTwoStrings (the Dice coefficient of the bigrams,
\* computed by findBestMatch for every target), as a fraction num / den:
\* 1 for equal strings, 0 when a string has fewer than two characters,
\* else 2 * intersectionSize / (first.length + second.length - 2)
compareTwoStrings(a, b) ==
  LET first == NoSpaces(a)
      second == NoSpaces(b)
  IN IF first = second THEN [num |-> 1, den |-> 1]
     ELSE IF Len(first) < 2 \/ Len(second) < 2 THEN [num |-> 0, den |-> 1]
     ELSE [num |-> 2 * IntersectionSize(first, second),
           den |-> Len(first) + Len(second) - 2]

\* stringSimilarity.findBestMatch(title, titles).bestMatch.rating: the
\* highest rating over the targets
bestMatchRating(title, titles) ==
  LET ratings == {compareTwoStrings(title, t) : t \in titles} IN
    CHOOSE r \in ratings : \A q \in ratings : q.num * r.den <= r.num * q.den

\* a comparison that also rejects a rating of exactly 0.6
isDuplicateAtLeast(title, titles) ==
  /\ titles # {}
  /\ LET r == bestMatchRating(title, titles) IN r.num * 10 >= ThresholdTenths * r.den

\* let isDuplicate = false; if (existingTitles.length > 0) { const matches =
\* stringSimilarity.findBestMatch(item.title, existingTitles);
\* if (matches.bestMatch.rating > 0.6) isDuplicate = true }
isDuplicate(title, titles) ==
  /\ titles # {}
  /\ LET r == bestMatchRating(title, titles) IN r.num * 10 > ThresholdTenths * r.den

\* q.text.split('\n')[0].replace("Title: ", ""): the first line without the
\* first "Title: " in it
firstLineTitle(text) ==
  LET breaks == {k \in 1..Len(text) : text[k] = "\n"}
      line == IF breaks = {} THEN text
              ELSE SubSeq(text, 1, (CHOOSE k \in breaks : \A j \in breaks : k <= j) - 1)
      marks == {k \in 1..Len(line) : line[k] = "Title: "}
  IN IF marks = {} THEN line
     ELSE LET at == CHOOSE k \in marks : \A j \in marks : k <= j
          IN SubSeq(line, 1, at - 1) \o SubSeq(line, at + 1, Len(line))

\* Post.find({ publishedAt: { $gte: new Date(Date.now() - 48 h) } }); the
\* field age of a Post is the time in hours since its publishedAt
recentPosts == {p \in posts : p.age <= RecencyHours}

\* new Queue({ id: new mongoose.Types.ObjectId().toString(), text:
\* `Title: ${item.title}\nSummary: ${item.contentSnippet || ""}`, url:
\* item.link, postType: "normal_post", queuedAt: new Date(), ... }); the id
\* is one no document has had
rssQueueDoc(item, now) ==
  [id |-> <<"oid", now>>, queuedAt |-> now, postType |-> "normal_post",
   text |-> <<"Title: ">> \o item.title \o <<"\n", "Summary: ">> \o item.contentSnippet,
   url |-> item.link]

\* the loop over RSS_FEEDS goes to the next feed, or the run returns
\* totalQueued
RssNextFeed(r) ==
  IF r.feed < Len(RSS_FEEDS)
    THEN [r EXCEPT !.pc = "feed", !.feed = r.feed + 1, !.items = <<>>, !.pos = 0]
    ELSE [r EXCEPT !.pc = "idle", !.feed = 0, !.items = <<>>, !.pos = 0,
                   !.existingTitles = {}, !.existingUrls = {}]

\* A run of fetchAndQueueRSS keeps its position and its locals in a record
\* r; rN is the record after the step.  The cron and the route
\* /api/trigger-rss-fetch call the same function, each run with locals of
\* its own.

\* const recentPosts = await Post.find(...).select('title url source')
RunStart(r, rN) ==
  /\ r.pc = "idle"
  /\ clock < MaxInserts
  /\ rN = [pc |-> "queue",
           existingTitles |-> {p.title : p \in recentPosts},
           existingUrls |-> {p.url : p \in recentPosts},
           feed |-> 0, items |-> <<>>, pos |-> 0, totalQueued |-> 0]
  /\ UNCHANGED <<queue, posts, tags, clock, ingestVars, workerVars>>

\* const recentQueue = await Queue.find().select('text url'); existingTitles
\* (without the falsy ones) and existingUrls are built; the loop starts
RunReadQueue(r, rN) ==
  /\ r.pc = "queue"
  /\ rN = [r EXCEPT
             !.pc = "feed", !.feed = 1,
             !.existingTitles = {t \in @ \cup {firstLineTitle(q.text) : q \in queue} : t # <<>>},
             !.existingUrls = @ \cup {q.url : q \in queue}]
  /\ UNCHANGED <<queue, posts, tags, clock, ingestVars, workerVars>>

\* rssParser.parseURL throws: the catch of the feed logs and the loop goes on
RunParseFail(r, rN) ==
  /\ r.pc = "feed"
  /\ rN = RssNextFeed(r)
  /\ UNCHANGED <<queue, posts, tags, clock, ingestVars, workerVars>>

\* const feed = await rssParser.parseURL(feedSource.url); const items =
\* feed.items.slice(0, 5)
RunParse(r, rN, list) ==
  /\ r.pc = "feed"
  /\ LET sliced == Slice(list, FeedLimit) IN
       rN = IF Len(sliced) = 0 THEN RssNextFeed(r)
            ELSE [r EXCEPT !.pc = "item", !.items = sliced, !.pos = 1]
  /\ UNCHANGED <<queue, posts, tags, clock, ingestVars, workerVars>>

\* the body of the loop over items: if (existingUrls.has(item.link))
\* continue; the title comparison; if (!isDuplicate) { await newItem.save();
\* existingTitles.push(item.title); existingUrls.add(item.link);
\* totalQueued++ }
RunItem(r, rN) ==
  /\ r.pc = "item"
  /\ LET item == r.items[r.pos]
         after(x) == IF x.pos < Len(x.items) THEN [x EXCEPT !.pos = x.pos + 1]
                     ELSE RssNextFeed(x)
     IN IF item.link \in r.existingUrls \/ isDuplicate(item.title, r.existingTitles)
          THEN /\ rN = after(r)
               /\ UNCHANGED <<queue, clock>>
          ELSE /\ clock < MaxInserts
               /\ queue' = queue \cup {rssQueueDoc(item, clock)}
               /\ clock' = clock + 1
               /\ rN = after([r EXCEPT
                                !.existingTitles = @ \cup {item.title},
                                !.existingUrls = @ \cup {item.link},
                                !.totalQueued = @ + 1])
  /\ UNCHANGED <<posts, tags, ingestVars, workerVars>>

\* the steps of the run of the cron
RssStart == RunStart(rss, rss')

RssReadQueue == RunReadQueue(rss, rss')

RssParseFail == RunParseFail(rss, rss')

RssParse(list) == RunParse(rss, rss', list)

\* a loop body that leaves existingTitles and existingUrls as they were
\* built before the loop
RssItemSnapshotOnly ==
  /\ rss.pc = "item"
  /\ LET item == rss.items[rss.pos]
         after(r) == IF r.pos < Len(r.items) THEN [r EXCEPT !.pos = r.pos + 1]
                     ELSE RssNextFeed(r)
     IN IF item.link \in rss.existingUrls \/ isDuplicate(item.title, rss.existingTitles)
          THEN /\ rss' = after(rss)
               /\ UNCHANGED <<queue, clock>>
          ELSE /\ clock < MaxInserts
               /\ queue' = queue \cup {rssQueueDoc(item, clock)}
               /\ clock' = clock + 1
               /\ rss' = after([rss EXCEPT !.totalQueued = @ + 1])
  /\ UNCHANGED <<posts, tags, ingestVars, workerVars>>

\* the loop body of the run of the cron
RssItem == RunItem(rss, rss')

\* -------------------------------------------------------------------------
\* The revision with the queue in a file (src/unnamed/part_000, from
\* `const QUEUE_FILE`): the route and the worker
\* -------------------------------------------------------------------------

\* The file holds the tweets as the upstream returned them; the model writes
\* a tweet as its id.

\* readQueue(): the array in the file, [] when there is no file
readQueue == queueFile

\* writeQueue(data): fs.writeFileSync of the whole array
writeQueue(data) == queueFile' = data

\* GET /api/fetch-user-last-tweets up to `await Post.find(...)`: the
\* upstream answers with the list tw (no tweet returns at once), and
\* const currentQueue = readQueue()
FileRouteFetch(tw) ==
  /\ ipc["route"] = "idle"
  /\ clock < MaxInserts
  /\ IF Len(tw) = 0
       THEN /\ IngestReturn("route", 0, FALSE)
            /\ UNCHANGED currentQueue
       ELSE /\ ipc' = [ipc EXCEPT !["route"] = "posted"]
            /\ tweets' = [tweets EXCEPT !["route"] = tw]
            /\ currentQueue' = readQueue
            /\ UNCHANGED <<postedIds, newTweets, ret, threw>>
  /\ UNCHANGED <<queue, posts, tags, clock, workerVars, queueFile>>

\* Post.find({ tweetId: { $in: ... } }).distinct('tweetId') is answered;
\* newTweets = tweets.filter(t => !dbIds.has(t.id) && !queueIds.has(t.id));
\* none returns, otherwise writeQueue([...currentQueue, ...newTweets])
FileRouteWrite ==
  /\ ipc["route"] = "posted"
  /\ LET dbIds == PostDistinctTweetIds(Range(tweets["route"]))
         queueIds == Range(currentQueue)
         fresh == FilterNew(tweets["route"], dbIds \cup queueIds)
     IN /\ IF Len(fresh) = 0
             THEN UNCHANGED <<queueFile, clock>>
             ELSE /\ writeQueue(currentQueue \o fresh)
                  /\ clock' = clock + 1
        /\ IngestReturn("route", Len(fresh), FALSE)
  /\ currentQueue' = <<>>
  /\ UNCHANGED <<queue, posts, tags, workerVars>>

\* the callback of the worker returns
FileWorkerEnd(w) ==
  /\ wpc' = [wpc EXCEPT ![w] = "idle"]
  /\ batch' = [batch EXCEPT ![w] = <<>>]
  /\ idx' = [idx EXCEPT ![w] = 0]
  /\ outcome' = [outcome EXCEPT ![w] = "none"]
  /\ geminiData' = [geminiData EXCEPT ![w] = GNull]
  /\ tagIds' = [tagIds EXCEPT ![w] = <<>>]
  /\ tagPos' = [tagPos EXCEPT ![w] = 0]

\* const queue = readQueue(); if (queue.length === 0) return; const tweet =
\* queue[0]; const remaining = queue.slice(1); the local `queue` is kept in
\* batch, and the generative call for tweet is made
FileWorkerPull(w) ==
  /\ wpc[w] = "idle"
  /\ Len(readQueue) > 0
  /\ batch' = [batch EXCEPT ![w] = readQueue]
  /\ idx' = [idx EXCEPT ![w] = 1]
  /\ wpc' = [wpc EXCEPT ![w] = "gemini"]
  /\ UNCHANGED <<queue, posts, tags, clock, ingestVars, outcome, geminiData, tagIds, tagPos, fileVars>>

\* new Post({ ..., url: `post-${Date.now()}`, tweetId: tweet.id, type:
\* "normal_post" }); docId is the _id the document gets, oid
NewPostFile(tweet, oid) ==
  [docId |-> oid, tweetId |-> tweet, url |-> <<"post", oid>>, type |-> "normal_post"]

\* await newPost.save(); the log line; writeQueue(remaining); await
\* sleep(10000).  A validation error, a duplicate key or the log line's
\* TypeError lands in the catch, which also runs writeQueue(remaining).
FileWorkerSave(w) ==
  /\ wpc[w] = "save"
  /\ LET tweet == batch[w][1]
         remaining == Tail(batch[w])
         post == NewPostFile(tweet, Cardinality(posts))
     IN /\ writeQueue(remaining)
        /\ IF PostInvalid(geminiData[w]) \/ PostKeyTaken(posts, post)
             THEN /\ FileWorkerEnd(w)
                  /\ UNCHANGED posts
             ELSE /\ posts' = posts \cup {post}
                  /\ IF LogThrows(geminiData[w])
                       THEN FileWorkerEnd(w)
                       ELSE /\ wpc' = [wpc EXCEPT ![w] = "sleep"]
                            /\ UNCHANGED <<batch, idx, outcome, geminiData, tagIds, tagPos>>
  /\ UNCHANGED <<queue, tags, clock, ingestVars, currentQueue>>

\* else branch ("Gemini failed"): writeQueue([...remaining, tweet])
FileWorkerRequeue(w) ==
  /\ wpc[w] = "drop"
  /\ writeQueue(Tail(batch[w]) \o <<batch[w][1]>>)
  /\ FileWorkerEnd(w)
  /\ UNCHANGED <<queue, posts, tags, clock, ingestVars, currentQueue>>

\* the 10 s pause after a saved Post is over
FileWorkerSleep(w) ==
  /\ wpc[w] = "sleep"
  /\ FileWorkerEnd(w)
  /\ UNCHANGED <<queue, posts, tags, clock, ingestVars, fileVars>>

\* -------------------------------------------------------------------------
\* Initial state: empty collections, nothing running; the upstream tweets
\* carry no media and the route is called without a `type`
\* -------------------------------------------------------------------------

\* a tweet without media and without extendedEntities
TextTweet == [media |-> <<>>, extendedEntities |-> [hasMedia |-> FALSE, media |-> <<>>]]

\* the status url of a tweet of the account "al"
StatusUrl == <<"x", ".", "c", "o", "m", "/", "a", "l", "/", "s">>

\* text, url and user of a tweet whose payload names its author; every tweet
\* has a text of its own
PlainInfo(id) ==
  [text |-> <<"text of", id>>, url |-> StatusUrl,
   user |-> [present |-> TRUE, screen_name |-> <<"a", "l">>, name |-> <<"A", "l">>]]

\* no run of fetchAndQueueRSS is under way
NoFeedRun ==
  [pc |-> "idle", existingTitles |-> {}, existingUrls |-> {}, feed |-> 0,
   items |-> <<>>, pos |-> 0, totalQueued |-> 0]

Init ==
  /\ queue = {}
  /\ posts = {}
  /\ tags = {}
  /\ clock = 0
  /\ lastRun = NoRun
  /\ ipc = [i \in Ingesters |-> "idle"]
  /\ tweets = [i \in Ingesters |-> <<>>]
  /\ postedIds = [i \in Ingesters |-> {}]
  /\ newTweets = [i \in Ingesters |-> <<>>]
  /\ ret = [i \in Ingesters |-> 0]
  /\ threw = [i \in Ingesters |-> FALSE]
  /\ again = [i \in Ingesters |-> FALSE]
  /\ wpc = [w \in Workers |-> "idle"]
  /\ batch = [w \in Workers |-> <<>>]
  /\ idx = [w \in Workers |-> 0]
  /\ outcome = [w \in Workers |-> "none"]
  /\ geminiData = [w \in Workers |-> GNull]
  /\ tagIds = [w \in Workers |-> <<>>]
  /\ tagPos = [w \in Workers |-> 0]
  /\ tweetOf = [id \in Ids |-> TextTweet]
  /\ tweetInfo = [id \in Ids |-> PlainInfo(id)]
  /\ reqType = "normal_post"
  /\ handle = 0
  /\ rss = NoFeedRun
  /\ rssRoute = NoFeedRun
  /\ queueFile = <<>>
  /\ currentQueue = <<>>

\* the media entries upstream tweets carry in the model: photos with both
\* size fields, with one of them, with a canonical width only, with none;
\* videos with the variants of the specification's example, without an mp4,
\* with two mp4 of one bitrate, with an mp4 that has no bitrate, with an
\* empty list of variants and without video_info
NoInfo == [width |-> 0, height |-> 0]
NoSizes == [w |-> 0, h |-> 0]
Photo(url, info, large) ==
  [type |-> "photo", media_url_https |-> url, original_info |-> info,
   sizes |-> large, hasVariants |-> FALSE, variants |-> <<>>]
Video(has, list) ==
  [type |-> "video", media_url_https |-> "thumb", original_info |-> NoInfo,
   sizes |-> NoSizes, hasVariants |-> has, variants |-> list]
Variant(ct, rate, url) == [content_type |-> ct, bitrate |-> rate, url |-> url]

Photos ==
  {Photo("p1", [width |-> 800, height |-> 600], [w |-> 400, h |-> 300]),
   Photo("p2", NoInfo, [w |-> 400, h |-> 300]),
   Photo("p3", [width |-> 800, height |-> 0], [w |-> 400, h |-> 300]),
   Photo("p4", NoInfo, NoSizes)}

VariantLists ==
  {<<Variant("video/mp4", 500, "v1"), Variant("video/mp4", 1200, "v2"),
     Variant("video/webm", 2000, "v3")>>,
   <<Variant("video/webm", 2000, "v3")>>,
   <<Variant("video/mp4", 1200, "v1"), Variant("video/mp4", 1200, "v2")>>,
   <<Variant("video/mp4", 0, "v1"), Variant("video/mp4", 500, "v2")>>,
   <<>>}

Videos == {Video(TRUE, list) : list \in VariantLists} \cup {Video(FALSE, <<>>)}

MediaLists == ListsUpTo(Photos \cup Videos, MaxMedia)

\* upstream tweets: the media array under `media` only, or another one
\* under `extendedEntities.media` as well
MediaTweets ==
  {[media |-> m, extendedEntities |-> [hasMedia |-> FALSE, media |-> <<>>]] : m \in MediaLists}
    \cup {[media |-> <<Photo("p4", NoInfo, NoSizes)>>,
            extendedEntities |-> [hasMedia |-> TRUE, media |-> e]] : e \in MediaLists}

\* Initial state of the specifications about media: as Init, but the
\* upstream tweets carry media and the route is called with any `type`
InitMedia ==
  /\ queue = {}
  /\ posts = {}
  /\ tags = {}
  /\ clock = 0
  /\ lastRun = NoRun
  /\ ipc = [i \in Ingesters |-> "idle"]
  /\ tweets = [i \in Ingesters |-> <<>>]
  /\ postedIds = [i \in Ingesters |-> {}]
  /\ newTweets = [i \in Ingesters |-> <<>>]
  /\ ret = [i \in Ingesters |-> 0]
  /\ threw = [i \in Ingesters |-> FALSE]
  /\ again = [i \in Ingesters |-> FALSE]
  /\ wpc = [w \in Workers |-> "idle"]
  /\ batch = [w \in Workers |-> <<>>]
  /\ idx = [w \in Workers |-> 0]
  /\ outcome = [w \in Workers |-> "none"]
  /\ geminiData = [w \in Workers |-> GNull]
  /\ tagIds = [w \in Workers |-> <<>>]
  /\ tagPos = [w \in Workers |-> 0]
  /\ \E t \in MediaTweets : tweetOf = [id \in Ids |-> t]
  /\ tweetInfo = [id \in Ids |-> PlainInfo(id)]
  /\ reqType \in PostTypes
  /\ handle = 0
  /\ rss = NoFeedRun
  /\ rssRoute = NoFeedRun
  /\ queueFile = <<>>
  /\ currentQueue = <<>>

\* the titles of the model: T2 shares three of its five bigrams with T1
\* (rating 0.6), T3 four (rating 0.8), T4 none
T1 == <<"a", "b", "c", "d", "e", "f">>
T2 == <<"a", "b", "c", "d", "x", "y">>
T3 == <<"a", "b", "c", "d", "e", "g">>
T4 == <<"z", " ", "z", "z">>

\* a Post of the article at L1, saved by a worker firing age hours ago
FeedPost(age) ==
  [docId |-> 0, tweetId |-> Absent, url |-> "L1", title |-> T1, age |-> age]

\* the items the feeds carry: the article of the Post under another title,
\* another article under the title of the Post, and two more whose titles
\* are more or less like it
FeedItems ==
  {[title |-> T4, link |-> "L1", contentSnippet |-> <<>>],
   [title |-> T1, link |-> "L2", contentSnippet |-> <<>>],
   [title |-> T2, link |-> "L3", contentSnippet |-> <<>>],
   [title |-> T3, link |-> "L4", contentSnippet |-> <<>>]}

\* Initial state of the specification about RSS ingestion: as Init, but the
\* Post collection may hold the Post of an article, published a day or
\* three days ago
InitFeed ==
  /\ queue = {}
  /\ posts \in {{}, {FeedPost(24)}, {FeedPost(72)}}
  /\ tags = {}
  /\ clock = 0
  /\ lastRun = NoRun
  /\ ipc = [i \in Ingesters |-> "idle"]
  /\ tweets = [i \in Ingesters |-> <<>>]
  /\ postedIds = [i \in Ingesters |-> {}]
  /\ newTweets = [i \in Ingesters |-> <<>>]
  /\ ret = [i \in Ingesters |-> 0]
  /\ threw = [i \in Ingesters |-> FALSE]
  /\ again = [i \in Ingesters |-> FALSE]
  /\ wpc = [w \in Workers |-> "idle"]
  /\ batch = [w \in Workers |-> <<>>]
  /\ idx = [w \in Workers |-> 0]
  /\ outcome = [w \in Workers |-> "none"]
  /\ geminiData = [w \in Workers |-> GNull]
  /\ tagIds = [w \in Workers |-> <<>>]
  /\ tagPos = [w \in Workers |-> 0]
  /\ tweetOf = [id \in Ids |-> TextTweet]
  /\ tweetInfo = [id \in Ids |-> PlainInfo(id)]
  /\ reqType = "normal_post"
  /\ handle = 0
  /\ rss = NoFeedRun
  /\ rssRoute = NoFeedRun
  /\ queueFile = <<>>
  /\ currentQueue = <<>>

\* the urls upstream tweets carry in the model: a status url on x.com and
\* one on twitter.com of the account "bo", a url of another host, the host
\* x.com with nothing behind it, and no url
UrlX == <<"x", ".", "c", "o", "m", "/", "b", "o", "/", "s">>
UrlTwitter == <<"t", "w", "i", "t", "t", "e", "r", ".", "c", "o", "m", "/", "b", "o">>
UrlOther == <<"t", ".", "c", "o", "/", "z">>
UrlBare == <<"x", ".", "c", "o", "m", "/">>
Urls == {UrlX, UrlTwitter, UrlOther, UrlBare, <<>>}

\* the user objects upstream tweets carry: none, or one whose screen_name is
\* a handle, a placeholder or missing and whose name is a display name,
\* the placeholder or missing
Users ==
  {[present |-> FALSE, screen_name |-> <<>>, name |-> <<>>]}
    \cup {[present |-> TRUE, screen_name |-> h, name |-> n] :
            h \in {<<"a", "l">>, Unknown, TwitterUser, <<>>},
            n \in {<<"A", "l">>, TwitterUser, <<>>}}

AuthorInfos == {[text |-> <<"text">>, url |-> u, user |-> a] : u \in Urls, a \in Users}

\* Initial state of the specification about the author label: as Init, but
\* the upstream tweets carry any of the users and urls above
InitAuthor ==
  /\ queue = {}
  /\ posts = {}
  /\ tags = {}
  /\ clock = 0
  /\ lastRun = NoRun
  /\ ipc = [i \in Ingesters |-> "idle"]
  /\ tweets = [i \in Ingesters |-> <<>>]
  /\ postedIds = [i \in Ingesters |-> {}]
  /\ newTweets = [i \in Ingesters |-> <<>>]
  /\ ret = [i \in Ingesters |-> 0]
  /\ threw = [i \in Ingesters |-> FALSE]
  /\ again = [i \in Ingesters |-> FALSE]
  /\ wpc = [w \in Workers |-> "idle"]
  /\ batch = [w \in Workers |-> <<>>]
  /\ idx = [w \in Workers |-> 0]
  /\ outcome = [w \in Workers |-> "none"]
  /\ geminiData = [w \in Workers |-> GNull]
  /\ tagIds = [w \in Workers |-> <<>>]
  /\ tagPos = [w \in Workers |-> 0]
  /\ tweetOf = [id \in Ids |-> TextTweet]
  /\ \E info \in AuthorInfos : tweetInfo = [id \in Ids |-> info]
  /\ reqType = "normal_post"
  /\ handle = 0
  /\ rss = NoFeedRun
  /\ rssRoute = NoFeedRun
  /\ queueFile = <<>>
  /\ currentQueue = <<>>

\* -------------------------------------------------------------------------
\* Specifications
\* -------------------------------------------------------------------------

\* the history variables, when no claim of the specification reads them, and
\* the upstream tweets, the `type` parameter and the auto-fetch loop, which
\* no step of the specification changes
NoHistory == UNCHANGED <<histVars, envVars, rss, rssRoute, fileVars>>

\* a generative answer of the expected shape without tags
PlainAnswer == [how |-> "json", value |-> GObject("string", TRUE, <<>>)]

\* Ingestion runs of the cron and of a route, and one worker firing,
\* interleaved at every await; two tweet ids; the generative call fails or
\* answers with the expected shape.
PipeIds == {"t1", "t2"}
PipeOutcomes == {[how |-> "throws", value |-> GNull], PlainAnswer}

Next ==
  \/ \E i \in Ingesters : IngestFetchFail(i) /\ NoHistory
  \/ \E i \in Ingesters : \E tw \in ListsUpTo(PipeIds, MaxTweets) : IngestFetch(i, tw) /\ NoHistory
  \/ \E i \in Ingesters : IngestReadQueue(i) /\ NoHistory
  \/ \E i \in Ingesters : IngestInsert(i) /\ NoHistory
  \/ WorkerPull("w1") /\ NoHistory
  \/ \E o \in PipeOutcomes : WorkerGemini("w1", o) /\ NoHistory
  \/ WorkerSave("w1") /\ NoHistory
  \/ WorkerDelete("w1") /\ NoHistory
  \/ WorkerDrop("w1") /\ NoHistory
  \/ WorkerSleep("w1") /\ NoHistory

Spec == Init /\ [][Next]_vars

\* One ingestion run at a time and one worker firing, interleaved at every
\* await; four tweet ids, so that the Queue can hold more than one batch,
\* each upstream answer being a page of a timeline; the generative call
\* fails or answers with the expected shape.
NextFifo ==
  \/ IngestFetchFail("cron") /\ NoHistory
  \/ \E tw \in TimelineLists(MaxTweets) : IngestFetch("cron", tw) /\ NoHistory
  \/ IngestReadQueue("cron") /\ NoHistory
  \/ IngestInsert("cron") /\ NoHistory
  \/ WorkerPull("w1") /\ NoHistory
  \/ \E o \in PipeOutcomes : WorkerGemini("w1", o) /\ NoHistory
  \/ WorkerSave("w1") /\ NoHistory
  \/ WorkerDelete("w1") /\ NoHistory
  \/ WorkerDrop("w1") /\ NoHistory
  \/ WorkerSleep("w1") /\ NoHistory

SpecFifo == Init /\ [][NextFifo]_vars

\* One ingestion run at a time and one worker firing, interleaved at every
\* await; two tweet ids; every outcome of the generative call, with and
\* without tag names.
ItemTagLists == {<<>>, <<<<"A", "b">>, <<"a", " ", "b">>>>}

NextItem ==
  \/ IngestFetchFail("cron") /\ NoHistory
  \/ \E tw \in ListsUpTo(PipeIds, MaxTweets) : IngestFetch("cron", tw) /\ NoHistory
  \/ IngestReadQueue("cron") /\ NoHistory
  \/ IngestInsert("cron") /\ NoHistory
  \/ WorkerPull("w1") /\ NoHistory
  \/ \E o \in GeminiOutcomes(ItemTagLists) : WorkerGemini("w1", o) /\ NoHistory
  \/ WorkerTagFind("w1") /\ NoHistory
  \/ WorkerTagCreate("w1") /\ NoHistory
  \/ WorkerSave("w1") /\ NoHistory
  \/ WorkerDelete("w1") /\ NoHistory
  \/ WorkerDrop("w1") /\ NoHistory
  \/ WorkerSleep("w1") /\ NoHistory

SpecItem == Init /\ [][NextItem]_vars

\* One activity at a time: an ingestion run or a worker firing starts only
\* when nothing else is running, and runs to its end.  lastRun and again
\* record whether a run was given the candidate list of the run before it
\* with no operation in between.
Alone(i) ==
  /\ \A j \in Ingesters \ {i} : ipc[j] = "idle"
  /\ \A w \in Workers : wpc[w] = "idle"

NoIngestion == \A i \in Ingesters : ipc[i] = "idle"

ObserveIngest(i) ==
  /\ UNCHANGED <<envVars, rss, rssRoute, fileVars>>
  /\ IF ipc[i] = "idle" /\ ipc'[i] # "idle"
       THEN /\ again' = [again EXCEPT ![i] = Distinct(tweets'[i]) /\ lastRun = <<"ran", tweets'[i]>>]
            /\ UNCHANGED lastRun
       ELSE IF ipc[i] # "idle" /\ ipc'[i] = "idle"
              THEN /\ lastRun' = <<"ran", tweets[i]>>
                   /\ UNCHANGED again
              ELSE IF ipc[i] = "idle"
                     THEN /\ lastRun' = NoRun
                          /\ again' = [again EXCEPT ![i] = FALSE]
                     ELSE UNCHANGED histVars

ObserveWorker ==
  /\ lastRun' = NoRun
  /\ UNCHANGED <<again, envVars, rss, rssRoute, fileVars>>

NextRerun ==
  \/ \E i \in Ingesters : Alone(i) /\ IngestFetchFail(i) /\ ObserveIngest(i)
  \/ \E i \in Ingesters : \E tw \in ListsUpTo(PipeIds, MaxTweets) :
       Alone(i) /\ IngestFetch(i, tw) /\ ObserveIngest(i)
  \/ \E i \in Ingesters : Alone(i) /\ IngestReadQueue(i) /\ ObserveIngest(i)
  \/ \E i \in Ingesters : Alone(i) /\ IngestInsert(i) /\ ObserveIngest(i)
  \/ NoIngestion /\ WorkerPull("w1") /\ ObserveWorker
  \/ \E o \in PipeOutcomes : NoIngestion /\ WorkerGemini("w1", o) /\ ObserveWorker
  \/ NoIngestion /\ WorkerSave("w1") /\ ObserveWorker
  \/ NoIngestion /\ WorkerDelete("w1") /\ ObserveWorker
  \/ NoIngestion /\ WorkerDrop("w1") /\ ObserveWorker
  \/ NoIngestion /\ WorkerSleep("w1") /\ ObserveWorker

SpecRerun == Init /\ [][NextRerun]_vars

\* Two firings of the queue worker at the same time (node-cron starts the
\* callback every minute, whether or not the callback of the minute before
\* has returned) and the ingestion runs of the cron; two tweet ids; the
\* generative call fails or answers with the expected shape.
NextOverlap ==
  \/ IngestFetchFail("cron") /\ NoHistory
  \/ \E tw \in ListsUpTo(PipeIds, MaxTweets) : IngestFetch("cron", tw) /\ NoHistory
  \/ IngestReadQueue("cron") /\ NoHistory
  \/ IngestInsert("cron") /\ NoHistory
  \/ \E w \in Workers : WorkerPull(w) /\ NoHistory
  \/ \E w \in Workers : \E o \in PipeOutcomes : WorkerGemini(w, o) /\ NoHistory
  \/ \E w \in Workers : WorkerSave(w) /\ NoHistory
  \/ \E w \in Workers : WorkerDelete(w) /\ NoHistory
  \/ \E w \in Workers : WorkerDrop(w) /\ NoHistory
  \/ \E w \in Workers : WorkerSleep(w) /\ NoHistory

SpecOverlap == Init /\ [][NextOverlap]_vars

\* Runs of the route and one worker firing over tweets that carry media;
\* one tweet id, so that a batch has one item and the worker never sleeps;
\* the generative call answers with the expected shape.
MediaIds == {"t1"}

NextMedia ==
  \/ IngestFetchFail("route") /\ NoHistory
  \/ \E tw \in ListsUpTo(MediaIds, MaxTweets) : IngestFetch("route", tw) /\ NoHistory
  \/ IngestReadQueue("route") /\ NoHistory
  \/ IngestInsert("route") /\ NoHistory
  \/ WorkerPull("w1") /\ NoHistory
  \/ WorkerGemini("w1", PlainAnswer) /\ NoHistory
  \/ WorkerSave("w1") /\ NoHistory
  \/ WorkerDelete("w1") /\ NoHistory

SpecMedia == InitMedia /\ [][NextMedia]_vars

\* The same runs over the same tweets with the worker of the revision with
\* RSS ingestion, whose route for a user's tweets runs the steps of the
\* route above; the generative call answers with the expected shape.
NextRss ==
  \/ IngestFetchFail("route") /\ NoHistory
  \/ \E tw \in ListsUpTo(MediaIds, MaxTweets) : IngestFetch("route", tw) /\ NoHistory
  \/ IngestReadQueue("route") /\ NoHistory
  \/ IngestInsert("route") /\ NoHistory
  \/ WorkerPull("w1") /\ NoHistory
  \/ WorkerGemini("w1", PlainAnswer) /\ NoHistory
  \/ WorkerSaveRss("w1") /\ NoHistory
  \/ WorkerDeleteRss("w1") /\ NoHistory
  \/ WorkerSleep("w1") /\ NoHistory

SpecRss == InitMedia /\ [][NextRss]_vars

\* Two worker firings at the same time, each inside getOrCreateTags, and the
\* ingestion runs of the cron; one tweet id, which both firings may hold, so
\* that a batch has one item and the worker never sleeps; the generative
\* call answers with tag names: two display names of one slug, a name whose slug is
\* empty followed by a plain name, and one name alone.
TagLists ==
  {<<<<"A", "b">>, <<"a", "b", "!">>>>,
   <<<<"!">>, <<"a">>>>,
   <<<<"a", "b", "!">>>>}

TagOutcomes == {[how |-> "json", value |-> GObject("string", TRUE, names)] : names \in TagLists}

NextTags ==
  \/ IngestFetchFail("cron") /\ NoHistory
  \/ \E tw \in ListsUpTo(MediaIds, MaxTweets) : IngestFetch("cron", tw) /\ NoHistory
  \/ IngestReadQueue("cron") /\ NoHistory
  \/ IngestInsert("cron") /\ NoHistory
  \/ \E w \in Workers : WorkerPull(w) /\ NoHistory
  \/ \E w \in Workers : \E o \in TagOutcomes : WorkerGemini(w, o) /\ NoHistory
  \/ \E w \in Workers : WorkerTagFind(w) /\ NoHistory
  \/ \E w \in Workers : WorkerTagCreate(w) /\ NoHistory
  \/ \E w \in Workers : WorkerSave(w) /\ NoHistory
  \/ \E w \in Workers : WorkerDelete(w) /\ NoHistory

SpecTags == Init /\ [][NextTags]_vars

\* The auto-fetch cycle over TARGET_HANDLES, and runs of the route at any
\* time in between; two tweet ids.
NextCycle ==
  \/ CycleStart
  \/ CycleRun(IngestFetchFail("cron"))
  \/ \E tw \in ListsUpTo(PipeIds, MaxTweets) : CycleRun(IngestFetch("cron", tw))
  \/ CycleRun(IngestReadQueue("cron"))
  \/ CycleRun(IngestInsert("cron"))
  \/ IngestFetchFail("route") /\ NoHistory
  \/ \E tw \in ListsUpTo(PipeIds, MaxTweets) : IngestFetch("route", tw) /\ NoHistory
  \/ IngestReadQueue("route") /\ NoHistory
  \/ IngestInsert("route") /\ NoHistory

SpecCycle == Init /\ [][NextCycle]_vars

\* Runs of the route and one worker firing over tweets with any of the
\* users and urls; one tweet id; the generative call answers with the
\* expected shape.
NextAuthor ==
  \/ IngestFetchFail("route") /\ NoHistory
  \/ \E tw \in ListsUpTo(MediaIds, MaxTweets) : IngestFetch("route", tw) /\ NoHistory
  \/ IngestReadQueue("route") /\ NoHistory
  \/ IngestInsert("route") /\ NoHistory
  \/ WorkerPull("w1") /\ NoHistory
  \/ WorkerGemini("w1", PlainAnswer) /\ NoHistory
  \/ WorkerSave("w1") /\ NoHistory
  \/ WorkerDelete("w1") /\ NoHistory

SpecAuthor == InitAuthor /\ [][NextAuthor]_vars

\* Ingestion runs of the cron and one worker firing at a time, every firing
\* followed by the next (the timer fires every minute); two tweet ids; the
\* generative call, when it answers, answers with the expected shape.
NextTick ==
  \/ IngestFetchFail("cron") /\ NoHistory
  \/ \E tw \in ListsUpTo(PipeIds, MaxTweets) : IngestFetch("cron", tw) /\ NoHistory
  \/ IngestReadQueue("cron") /\ NoHistory
  \/ IngestInsert("cron") /\ NoHistory
  \/ WorkerPull("w1") /\ NoHistory
  \/ WorkerGemini("w1", PlainAnswer) /\ NoHistory
  \/ WorkerSave("w1") /\ NoHistory
  \/ WorkerDelete("w1") /\ NoHistory
  \/ WorkerSleep("w1") /\ NoHistory

\* the timer goes on firing, and the store and the timer of sleep answer
\* every await on them
StoreAnswers ==
  /\ WF_vars(WorkerPull("w1") /\ NoHistory)
  /\ WF_vars(WorkerSave("w1") /\ NoHistory)
  /\ WF_vars(WorkerDelete("w1") /\ NoHistory)
  /\ WF_vars(WorkerSleep("w1") /\ NoHistory)

\* The generative service may leave a call without an answer for ever:
\* `await model.generateContent(prompt)` is given no timeout and no signal.
SpecTick == Init /\ [][NextTick]_vars /\ StoreAnswers

\* The generative service answers every call.
SpecDrain ==
  Init /\ [][NextTick]_vars /\ StoreAnswers /\ WF_vars(WorkerGemini("w1", PlainAnswer) /\ NoHistory)

\* a generative answer without a title: the Post built from it fails the
\* validation of the schema
NoTitleAnswer == [how |-> "json", value |-> GObject("undefined", TRUE, <<>>)]

\* Ingestion runs of the cron and one worker firing at a time, every firing
\* followed by the next; four tweet ids, so that the Queue can hold more than
\* one batch, each upstream answer being a page of a timeline; the
\* generative call answers with the expected shape or without a title.
NextStarve ==
  \/ IngestFetchFail("cron") /\ NoHistory
  \/ \E tw \in TimelineLists(MaxTweets) : IngestFetch("cron", tw) /\ NoHistory
  \/ IngestReadQueue("cron") /\ NoHistory
  \/ IngestInsert("cron") /\ NoHistory
  \/ WorkerPull("w1") /\ NoHistory
  \/ \E o \in {PlainAnswer, NoTitleAnswer} : WorkerGemini("w1", o) /\ NoHistory
  \/ WorkerSave("w1") /\ NoHistory
  \/ WorkerDelete("w1") /\ NoHistory
  \/ WorkerSleep("w1") /\ NoHistory

\* The timer goes on firing, the store and the timer of sleep answer every
\* await on them, and the generative service answers every call, with one
\* answer or the other.
SpecStarve ==
  /\ Init /\ [][NextStarve]_vars /\ StoreAnswers
  /\ WF_vars(\E o \in {PlainAnswer, NoTitleAnswer} : WorkerGemini("w1", o) /\ NoHistory)

\* Runs of fetchAndQueueRSS, one after the other (the 30-minute cron and the
\* route /api/trigger-rss-fetch), over feeds that carry up to MaxTweets of
\* the items above each.
NextFeed ==
  \/ RssStart /\ UNCHANGED <<histVars, envVars, rssRoute, fileVars>>
  \/ RssReadQueue /\ UNCHANGED <<histVars, envVars, rssRoute, fileVars>>
  \/ RssParseFail /\ UNCHANGED <<histVars, envVars, rssRoute, fileVars>>
  \/ \E list \in ListsUpTo(FeedItems, MaxTweets) : RssParse(list) /\ UNCHANGED <<histVars, envVars, rssRoute, fileVars>>
  \/ RssItem /\ UNCHANGED <<histVars, envVars, rssRoute, fileVars>>

SpecFeed == InitFeed /\ [][NextFeed]_vars

\* the items the feeds carry while two runs are under way: two articles
\* with titles that are nothing like each other
RaceItems == {item \in FeedItems : item.title \in {T1, T4}}

\* A run of fetchAndQueueRSS started by the cron and one started by the
\* route /api/trigger-rss-fetch, interleaved at every await, over feeds that
\* carry up to MaxTweets of these items each.
NextRace ==
  \/ RssStart /\ UNCHANGED <<histVars, envVars, rssRoute, fileVars>>
  \/ RssReadQueue /\ UNCHANGED <<histVars, envVars, rssRoute, fileVars>>
  \/ RssParseFail /\ UNCHANGED <<histVars, envVars, rssRoute, fileVars>>
  \/ \E list \in ListsUpTo(RaceItems, MaxTweets) : RssParse(list) /\ UNCHANGED <<histVars, envVars, rssRoute, fileVars>>
  \/ RssItem /\ UNCHANGED <<histVars, envVars, rssRoute, fileVars>>
  \/ RunStart(rssRoute, rssRoute') /\ UNCHANGED <<histVars, envVars, rss, fileVars>>
  \/ RunReadQueue(rssRoute, rssRoute') /\ UNCHANGED <<histVars, envVars, rss, fileVars>>
  \/ RunParseFail(rssRoute, rssRoute') /\ UNCHANGED <<histVars, envVars, rss, fileVars>>
  \/ \E list \in ListsUpTo(RaceItems, MaxTweets) :
       RunParse(rssRoute, rssRoute', list) /\ UNCHANGED <<histVars, envVars, rss, fileVars>>
  \/ RunItem(rssRoute, rssRoute') /\ UNCHANGED <<histVars, envVars, rss, fileVars>>

SpecRace == Init /\ [][NextRace]_vars

\* the other runs, which no step of the revision with the queue file takes
NoOtherRun == UNCHANGED <<histVars, envVars, rss, rssRoute>>

\* The revision with the queue in a file: calls of the route and one worker
\* firing at a time, interleaved at every await; two tweet ids; the
\* generative call fails or answers with the expected shape.
NextFile ==
  \/ IngestFetchFail("route") /\ NoHistory
  \/ \E tw \in ListsUpTo(PipeIds, MaxTweets) : FileRouteFetch(tw) /\ NoOtherRun
  \/ FileRouteWrite /\ NoOtherRun
  \/ FileWorkerPull("w1") /\ NoOtherRun
  \/ \E o \in PipeOutcomes : WorkerGemini("w1", o) /\ NoHistory
  \/ FileWorkerSave("w1") /\ NoOtherRun
  \/ FileWorkerRequeue("w1") /\ NoOtherRun
  \/ FileWorkerSleep("w1") /\ NoOtherRun

SpecFile == Init /\ [][NextFile]_vars

\* -------------------------------------------------------------------------
\* Claims about ingestion under interleaving (specification Spec)
\* -------------------------------------------------------------------------

PostedIds == {p.tweetId : p \in posts}

\* an ingestion run takes the step that ends it
IngestEnds(i) == ipc[i] # "idle" /\ ipc'[i] = "idle"

\* C1: a run that is given the candidate set (pairwise distinct ids) of the
\* run just before it, with no operation in between, inserts nothing and
\* returns 0.
C1_ReingestInsertsNothing ==
  [][\A i \in Ingesters :
       (again[i] /\ IngestEnds(i)) => (queue' = queue /\ ret'[i] = 0)]_vars

\* a second run over the same two candidates has ended, the candidates of
\* the first run being queued
C1_Witness ==
  \E i \in Ingesters :
    /\ again[i] /\ ipc[i] = "idle"
    /\ lastRun[1] = "ran" /\ Len(lastRun[2]) = 2
    /\ Range(lastRun[2]) \subseteq {d.id : d \in queue}

\* C2: once a Post with tweetId x exists, no ingestion enqueues a QueueItem
\* with id x, whatever the interleaving of the two existence queries with
\* the worker.
C2_PostedNeverEnqueued ==
  [][\A d \in queue' \ queue : d.id \notin PostedIds]_vars

\* C8: in every reachable state no two QueueItems have the same id.
C8_QueueIdsUnique ==
  \A d1, d2 \in queue : d1.id = d2.id => d1 = d2

\* an insertMany is about to be given an id that has been queued since the
\* run took its snapshot
C8_Witness ==
  \E i \in Ingesters :
    /\ ipc[i] = "insert"
    /\ \E k \in 1..Len(newTweets[i]) : QueueIdTaken(queue, newTweets[i][k])

\* C9: when a batch insert contains an item whose id is already queued (or
\* repeated in the batch), only that item is rejected: every other survivor
\* is in the Queue afterwards and the ingestion does not end in an error.
C9_SiblingsStillInserted ==
  [][\A i \in Ingesters :
       (ipc[i] = "insert" /\ ipc'[i] = "idle") =>
         /\ \A k \in 1..Len(newTweets[i]) : QueueIdTaken(queue', newTweets[i][k])
         /\ ~threw'[i]]_vars

\* C10: an ingestion run returns the number of QueueItems it inserted:
\* the size of the Queue grows by the returned count in the step that ends
\* the run, rejected duplicate keys included.
C10_ReturnsInsertedCount ==
  [][\A i \in Ingesters :
       IngestEnds(i) => ret'[i] = Cardinality(queue') - Cardinality(queue)]_vars

\* -------------------------------------------------------------------------
\* Claims about the worker (specifications SpecFifo and SpecItem)
\* -------------------------------------------------------------------------

\* the worker takes the step that leaves the try block of the current item
ItemDone(w) ==
  /\ wpc[w] \in {"drop", "tagFind", "tagCreate", "save", "delete"}
  /\ wpc'[w] \in {"sleep", "gemini", "idle"}

\* the loop goes on in order: the next item is the one after the current
\* item, and the callback returns only after the last item of the batch
LoopGoesOn(w) ==
  /\ (wpc[w] # "idle" /\ wpc'[w] = "gemini" /\ wpc[w] # "gemini") => idx'[w] = idx[w] + 1
  /\ (wpc[w] # "idle" /\ wpc'[w] = "idle") => idx[w] = Len(batch[w])
  /\ (wpc[w] # "idle" /\ wpc'[w] # "idle") => batch'[w] = batch[w]

\* C3: a worker tick pulls the min(3, |Queue|) QueueItems with the smallest
\* queuedAt, processes them one after the other in ascending queuedAt order,
\* and removes no QueueItem but the one it is processing, so every QueueItem
\* outside the batch is still queued when the tick ends.
C3_FifoBatch ==
  [][/\ \A w \in Workers :
          /\ (wpc[w] = "idle" /\ wpc'[w] # "idle") =>
               LET b == batch'[w] IN
                 /\ Len(b) = Min(BatchLimit, Cardinality(queue))
                 /\ Range(b) \subseteq queue
                 /\ \A j, k \in 1..Len(b) : j < k => b[j] # b[k] /\ b[j].queuedAt <= b[k].queuedAt
                 /\ \A d \in queue \ Range(b) : \A k \in 1..Len(b) : b[k].queuedAt <= d.queuedAt
                 /\ idx'[w] = 1
          /\ LoopGoesOn(w)
     /\ \A d \in queue \ queue' : \E w \in Workers : wpc[w] # "idle" /\ d = Item(w)]_vars

\* the third and last item of a batch that spans two enqueue times has been
\* processed, and a QueueItem outside the batch is still queued
C3_Witness ==
  \E w \in Workers :
    /\ wpc[w] = "sleep" /\ Len(batch[w]) = BatchLimit /\ idx[w] = BatchLimit
    /\ batch[w][1].queuedAt < batch[w][3].queuedAt
    /\ \E d \in queue : d \notin Range(batch[w]) /\ d.queuedAt >= batch[w][3].queuedAt

\* C4: when the generative call of an item returns a well-formed result,
\* then at the end of the item exactly one Post has the item's id as tweetId,
\* that Post has one Tag reference per returned tag name, and the QueueItem
\* is gone.
C4_WellFormedBecomesPost ==
  [][\A w \in Workers :
       (ItemDone(w) /\ outcome[w] = "json" /\ WellFormed(geminiData[w])) =>
         /\ Cardinality({p \in posts' : p.tweetId = Item(w).id}) = 1
         /\ \A p \in posts' : p.tweetId = Item(w).id =>
              Len(p.tags) = Len(TagNamesOf(geminiData[w]))
         /\ Item(w) \notin queue']_vars

\* the generative call threw or its text was not JSON
CallFailed(w) == outcome[w] \in {"throws", "nonjson"}

\* C5: when the generative call of an item throws or returns text that is
\* not JSON, the worker removes the QueueItem, creates no Post, does not call
\* again for the item in this tick, and goes on with the rest of the batch.
C5_FailureDropsItem ==
  [][\A w \in Workers :
       CallFailed(w) =>
         /\ ~Truthy(geminiData[w])
         /\ wpc[w] \in {"drop", "sleep"}
         /\ (wpc[w] = "drop" /\ wpc'[w] # "drop") => (Item(w) \notin queue' /\ posts' = posts)
         /\ (wpc'[w] # wpc[w]) => posts' = posts
         /\ LoopGoesOn(w)]_vars

\* a failed item has been removed without a Post, and the batch has another
\* item to process
C5_Witness ==
  \E w \in Workers :
    /\ CallFailed(w) /\ wpc[w] = "sleep" /\ idx[w] < Len(batch[w])
    /\ Item(w) \notin queue /\ Item(w).id \notin PostedIds

\* the answer parsed as JSON to a truthy value without a title string
UnexpectedShape(w) ==
  outcome[w] = "json" /\ Truthy(geminiData[w]) /\ geminiData[w].title # "string"

\* C6: an answer that parses as JSON but has an unexpected shape is a
\* Failure: at the end of the item the QueueItem is gone (so that no later
\* tick attempts it again) and no Post was created for it.
C6_UnexpectedShapeIsFailure ==
  [][\A w \in Workers :
       (ItemDone(w) /\ UnexpectedShape(w)) =>
         /\ Item(w) \notin queue'
         /\ \A p \in posts' \ posts : p.tweetId # Item(w).id]_vars

\* C7: an error thrown after a successful generative call is caught: the
\* QueueItem stays queued and the loop goes on; a QueueItem is removed only
\* by the deletion after its Post was saved or by the deletion after a
\* generative failure.
C7_MidItemErrorKeepsItem ==
  [][/\ \A w \in Workers :
          /\ (wpc[w] = "save" /\ wpc'[w] \notin {"save", "delete"}) => queue' = queue
          /\ LoopGoesOn(w)
     /\ \A d \in queue \ queue' :
          \E w \in Workers :
            /\ wpc[w] # "idle" /\ d = Item(w)
            /\ \/ wpc[w] = "delete" /\ d.id \in PostedIds
               \/ wpc[w] = "drop" /\ ~Truthy(geminiData[w])]_vars

\* the save of an item whose generative call succeeded has thrown; the item
\* is still queued, has no Post, and the batch has another item to process
C7_Witness ==
  \E w \in Workers :
    /\ wpc[w] = "sleep" /\ outcome[w] = "json" /\ Truthy(geminiData[w])
    /\ idx[w] < Len(batch[w])
    /\ Item(w) \in queue /\ Item(w).id \notin PostedIds

\* -------------------------------------------------------------------------
\* Claims about overlapping worker firings (specification SpecOverlap) and
\* about the unique indexes of Post
\* -------------------------------------------------------------------------

\* C11: in every reachable state, whatever the interleaving of ingestion
\* runs and worker firings (two firings that pulled the same QueueItem
\* included), at most one Post exists per tweetId.
C11_OnePostPerTweetId ==
  \A p1, p2 \in posts : p1.tweetId = p2.tweetId => p1 = p2

\* two firings hold the same QueueItem; one has saved its Post and the other
\* is about to save
C11_Witness ==
  \E w, v \in Workers :
    /\ w # v /\ wpc[w] = "delete" /\ wpc[v] = "save"
    /\ Item(w) = Item(v) /\ Item(w).id \in PostedIds

\* C12: Posts without a canonical URL never conflict on the url index: the
\* save of a valid Post whose tweetId no Post has yet is never rejected, so
\* the Post exists after the save step, however many Posts are stored.
C12_UrlNeverConflicts ==
  [][\A w \in Workers :
       (/\ wpc[w] = "save" /\ wpc'[w] # "save"
        /\ ~PostInvalid(geminiData[w]) /\ Item(w).id \notin PostedIds) =>
         \E p \in posts' : p.tweetId = Item(w).id]_vars

\* C13: at any moment at most one generative call is in flight, also when
\* the timer fires while the firing before it is still running.
C13_OneCallInFlight ==
  Cardinality({w \in Workers : wpc[w] = "gemini"}) <= 1

\* -------------------------------------------------------------------------
\* Claims about media and post type (specification SpecMedia)
\* -------------------------------------------------------------------------

\* the worker w takes the step that saves the Post p of its item
Saves(w, p) == wpc[w] = "save" /\ wpc'[w] # "save" /\ p \in posts' \ posts

\* C14: a Post saved without a resolved video has type "normal_post",
\* whatever type was requested for its QueueItem.
C14_NoVideoIsNormalPost ==
  [][\A w \in Workers : \A p \in posts' :
       (Saves(w, p) /\ p.videoUrl = Null) => p.type = "normal_post"]_vars

\* an item requested as "breaking_news" has been saved without a video, as
\* a "normal_post"
C14_Witness ==
  \E w \in Workers : \E p \in posts :
    /\ wpc[w] = "delete" /\ p.tweetId = Item(w).id
    /\ Item(w).postType = "breaking_news"
    /\ p.videoUrl = Null /\ p.type = "normal_post"

\* C15: a Post saved with a resolved video has type "normal_video" when the
\* type requested for its QueueItem is the default "normal_post", and the
\* requested type unchanged otherwise.
C15_VideoKeepsRequestedType ==
  [][\A w \in Workers : \A p \in posts' :
       (Saves(w, p) /\ p.videoUrl # Null) =>
         p.type = IF Item(w).postType = "normal_post"
                    THEN "normal_video" ELSE Item(w).postType]_vars

\* C33: a Post the worker saves has type "normal_post" exactly when its
\* videoUrl is null: with a video the type is another one, without a video
\* it is no other.
C33_NormalPostIffNoVideo ==
  [][\A w \in Workers : \A p \in posts' :
       Saves(w, p) => (p.type = "normal_post" <=> p.videoUrl = Null)]_vars

\* an item requested as "normal_post" has been saved with a video, as a
\* "normal_video"
C33_Witness ==
  \E w \in Workers : \E p \in posts :
    /\ wpc[w] = "delete" /\ p.tweetId = Item(w).id
    /\ Item(w).postType = "normal_post"
    /\ p.videoUrl # Null /\ p.type = "normal_video"

\* C16: when the first media entry is a video with variants, the videoUrl of
\* the Post is the url of the mp4 variant with the highest bitrate, the
\* first of them in the payload's order when several have it, and null when
\* no variant is mp4.
C16_BestMp4Variant ==
  [][\A w \in Workers : \A p \in posts' :
       Saves(w, p) =>
         LET m == mediaEntities(Item(w)) IN
           (Len(m) > 0 /\ m[1].type = "video" /\ m[1].hasVariants) =>
             LET vs == m[1].variants
                 mp4 == {k \in 1..Len(vs) : vs[k].content_type = "video/mp4"}
             IN IF mp4 = {}
                  THEN p.videoUrl = Null
                  ELSE \E k \in mp4 :
                         /\ \A j \in mp4 : vs[j].bitrate <= vs[k].bitrate
                         /\ \A j \in mp4 : j < k => vs[j].bitrate < vs[k].bitrate
                         /\ p.videoUrl = vs[k].url]_vars

\* the item with the variants mp4 500, mp4 1200, webm 2000 has been saved
\* with the url of the mp4 of 1200
C16_Witness ==
  \E w \in Workers : \E p \in posts :
    /\ wpc[w] = "delete" /\ p.tweetId = Item(w).id
    /\ Len(mediaEntities(Item(w))) > 0
    /\ mediaEntities(Item(w))[1].type = "video"
    /\ Len(mediaEntities(Item(w))[1].variants) = 3
    /\ p.videoUrl = "v2"

\* the first non-zero of the canonical and the fallback size, else 0
SizeOf(canonical, fallback) ==
  IF canonical # 0 THEN canonical ELSE IF fallback # 0 THEN fallback ELSE 0

C28_OnlyFirstEntryIsVideo ==
  [][\A w \in Workers : \A p \in posts' :
       Saves(w, p) =>
         LET m == mediaEntities(Item(w)) IN
           (Len(m) = 0 \/ m[1].type # "video") =>
             (p.videoUrl = Null /\ p.type = "normal_post")]_vars

\* a Post has been saved for a payload of a photo followed by a video with
\* mp4 variants: it has the photo, no video, and the type "normal_post"
C28_Witness ==
  \E w \in Workers : \E p \in posts :
    /\ wpc[w] = "delete" /\ p.tweetId = Item(w).id
    /\ LET m == mediaEntities(Item(w)) IN
         /\ Len(m) = 2 /\ m[1].type = "photo" /\ m[2].type = "video"
         /\ Len(bestVideo(m[2].variants)) > 0
    /\ p.videoUrl = Null /\ p.type = "normal_post" /\ p.imageUrl # Null

\* -------------------------------------------------------------------------
\* Claims about getOrCreateTags (specification SpecTags)
\* -------------------------------------------------------------------------

\* a step of the tag loop of the firing w
TagStep(w) ==
  /\ wpc[w] \in {"tagFind", "tagCreate"}
  /\ wpc'[w] # wpc[w] \/ tagPos'[w] # tagPos[w]

\* the name the tag loop of w is at
TagName(w) == TagNamesOf(geminiData[w])[tagPos[w]]

\* C18: under every interleaving of getOrCreateTags calls at most one Tag
\* exists per slug, and a call that comes to a name whose slug a Tag has
\* (the same name, or another display name of that slug) returns that Tag
\* and creates none.
C18_OneTagPerSlug ==
  [][/\ \A t1, t2 \in tags' : t1.slug = t2.slug => t1 = t2
     /\ \A w \in Workers :
          (TagStep(w) /\ wpc[w] = "tagFind") =>
            \A t \in tags : t.slug = slugOf(TagName(w)) =>
              tags' = tags /\ tagIds'[w] = Append(tagIds[w], t)]_vars

\* the Tag of slug "ab" was created under the display name "Ab" and a
\* call has got it back for the display name "ab!"
C18_Witness ==
  \E w \in Workers :
    /\ wpc[w] = "save" /\ Len(tagIds[w]) > 0
    /\ TagNamesOf(geminiData[w])[Len(TagNamesOf(geminiData[w]))] = <<"a", "b", "!">>
    /\ tagIds[w][Len(tagIds[w])].name = <<"A", "b">>

\* C19: getOrCreateTags returns the tags in the order of the names: every
\* step of its loop keeps the ids gathered so far and appends the Tag of
\* the name it is at (after Tag.create when no Tag has the slug), or nothing
\* when Tag.create rejected that name; the call goes on to the next name
\* and returns, and the Post is saved with the tags returned.
C19_TagsInOrderErrorsSkipped ==
  [][\A w \in Workers :
       /\ TagStep(w) =>
            /\ \/ wpc[w] = "tagFind" /\ wpc'[w] = "tagCreate"
                  /\ tagIds'[w] = tagIds[w] /\ tagPos'[w] = tagPos[w]
                  /\ \A t \in tags : t.slug # slugOf(TagName(w))
               \/ tagIds'[w] = tagIds[w]
                  /\ wpc[w] = "tagCreate" /\ wpc'[w] # "tagCreate"
                  /\ TagCreateRejected(TagName(w), slugOf(TagName(w)))
               \/ \E t \in tags' :
                    t.slug = slugOf(TagName(w)) /\ tagIds'[w] = Append(tagIds[w], t)
            /\ wpc'[w] \in {"tagCreate", "tagFind", "save"}
            /\ wpc'[w] = "tagFind" => tagPos'[w] = tagPos[w] + 1
            /\ wpc'[w] = "save" => tagPos[w] = Len(TagNamesOf(geminiData[w]))
       /\ \A p \in posts' : Saves(w, p) => p.tags = tagIds[w]]_vars

\* the create of the first name was rejected (its slug is empty), the Tag of
\* the second name was returned, and the Post has been saved with it
C19_Witness ==
  \E w \in Workers : \E p \in posts :
    /\ wpc[w] = "delete" /\ p.tweetId = Item(w).id
    /\ TagNamesOf(geminiData[w]) = <<<<"!">>, <<"a">>>>
    /\ Len(p.tags) = 1 /\ p.tags[1].name = <<"a">>

\* -------------------------------------------------------------------------
\* Claims about the auto-fetch cycle (specification SpecCycle)
\* -------------------------------------------------------------------------

\* C20: a failure of the run for one handle never halts the cycle: when a
\* run of the cycle returns, the loop is at the next handle; and a run that
\* failed (the request failed, or the run ended in its catch) leaves Queue
\* and Posts as they were.
C20_FailureIsIsolated ==
  [][(handle > 0 /\ handle' # handle) =>
       /\ handle' = NextHandle(handle)
       /\ (threw'["cron"] \/ ipc["cron"] = "idle") =>
            (queue' = queue /\ posts' = posts)]_vars

\* -------------------------------------------------------------------------
\* Claims about dropped items, the generative request, the pause between
\* items (specification Spec) and the end of a tick (specification SpecTick)
\* -------------------------------------------------------------------------

\* the firing w has dropped its current item after a failed generative call
\* and has not gone on to the next item yet
HasDropped(w) == CallFailed(w) /\ wpc[w] = "sleep"

\* C22: once a QueueItem was dropped because its transformation failed, the
\* candidate is lost for good: no ingestion enqueues its id again and no
\* Post is produced for it.
C22_DroppedIsLost ==
  [][\A w \in Workers :
       HasDropped(w) =>
         /\ \A d \in queue' \ queue : d.id # Item(w).id
         /\ \A p \in posts' \ posts : p.tweetId # Item(w).id]_vars

\* C25: the request the worker sends to the generative service for an item
\* is built from the text of the item: two items of a batch that differ in
\* their text make two different requests.
C25_RequestCarriesText ==
  \A w \in Workers : \A j, k \in 1..Len(batch[w]) :
    batch[w][j].text # batch[w][k].text =>
      geminiRequest(batch[w][j]) # geminiRequest(batch[w][k])

\* C26: the pause between items is taken only between two items of a
\* batch: the worker goes to sleep only when the batch has another item, so
\* a tick over n items sleeps n - 1 times and ends without a pause.
C26_SleepsBetweenItemsOnly ==
  [][\A w \in Workers :
       (wpc[w] # "sleep" /\ wpc'[w] = "sleep") => idx[w] < Len(batch[w])]_vars

\* C23: every worker tick terminates: the generative call is bounded by a
\* call timeout, so a firing that has started comes to the end of its batch
\* even when the collaborator never answers.
C23_TickTerminates ==
  \A w \in Workers : (wpc[w] # "idle") ~> (wpc[w] = "idle")

\* -------------------------------------------------------------------------
\* Claims about the author label (specification SpecAuthor)
\* -------------------------------------------------------------------------

\* the handle is neither missing nor a placeholder
Usable(h) == h \notin {<<>>, Unknown, TwitterUser}

\* the path segment behind twitter.com/ or x.com/ in the urls of the model
SegmentOf(url) ==
  IF url \in {UrlX, UrlTwitter} THEN <<"b", "o">> ELSE <<>>

\* the label names the handle h: "@h", or a display name followed by "(@h)"
NamesHandle(label, h) ==
  LET tail == <<" ", "(", "@">> \o h \o <<")">> IN
    \/ label = <<"@">> \o h
    \/ /\ Len(label) > Len(tail)
       /\ SubSeq(label, Len(label) - Len(tail) + 1, Len(label)) = tail

\* C24: the source name of a Post names the explicit author handle when it
\* is present and no placeholder ("Unknown", "Twitter User"); otherwise the
\* handle taken from the url (the path segment behind twitter.com/ or
\* x.com/); when that fails too the label is null and the source name is
\* the generic "Twitter".
C24_AuthorLabel ==
  [][\A w \in Workers : \A p \in posts' :
       Saves(w, p) =>
         LET explicit == Item(w).user.screen_name
             segment == SegmentOf(Item(w).url)
         IN IF Usable(explicit) THEN NamesHandle(p.sourceName, explicit)
            ELSE IF segment # <<>> THEN NamesHandle(p.sourceName, segment)
            ELSE p.sourceName = <<"Twitter">> /\ dbSourceAuthor(Item(w)) = <<>>]_vars

\* an item whose user carries the placeholder "Unknown" has been saved
\* under the handle of its status url
C24_Witness ==
  \E w \in Workers : \E p \in posts :
    /\ wpc[w] = "delete" /\ p.tweetId = Item(w).id
    /\ Item(w).user.screen_name = Unknown
    /\ NamesHandle(p.sourceName, <<"b", "o">>)

\* -------------------------------------------------------------------------
\* Claims about RSS ingestion (specification SpecFeed)
\* -------------------------------------------------------------------------

\* C21: a syndicated candidate whose link is the url of a Post, whenever
\* that Post was published, or the url of a QueueItem is never enqueued,
\* whatever its title is like (the url is looked at before the titles).
C21_KnownUrlNeverEnqueued ==
  [][\A d \in queue' \ queue :
       d.url \notin {p.url : p \in posts} \cup {q.url : q \in queue}]_vars

\* the titles a candidate is compared with: the titles of the Posts of the
\* last 48 hours and the first-line titles of the queued items
KnownTitles ==
  {p.title : p \in {r \in posts : r.age <= 48}} \cup {firstLineTitle(q.text) : q \in queue}

\* the urls of those Posts and of the queued items
KnownUrls ==
  {p.url : p \in {r \in posts : r.age <= 48}} \cup {q.url : q \in queue}

\* some known title is more than 0.6 like the title
TooSimilar(title) ==
  \E t \in KnownTitles :
    LET r == compareTwoStrings(title, t) IN 10 * r.num > 6 * r.den

\* C27: a syndicated candidate that passes the url check is treated as a
\* duplicate iff the best similarity between its title and the known titles
\* is strictly greater than 0.6; a best similarity of exactly 0.6, or no
\* known title at all, lets the candidate into the Queue.
C27_TitleThreshold ==
  [][(rss.pc = "item" /\ rss' # rss) =>
       LET item == rss.items[rss.pos] IN
         item.link \notin KnownUrls =>
           ((queue' # queue) <=> ~TooSimilar(item.title))]_vars

\* the candidate titled T2 has been queued although a Post of the last 48
\* hours is titled T1, which is exactly 0.6 like T2
C27_Witness ==
  /\ \E p \in posts : p.age <= 48 /\ p.title = T1
  /\ \E q \in queue : firstLineTitle(q.text) = T2
  /\ compareTwoStrings(T2, T1) = [num |-> 6, den |-> 10]

\* the documents the run of fetchAndQueueRSS under way (or the last one) has
\* enqueued: the totalQueued newest of the Queue
ThisCycle ==
  {d \in queue : Cardinality({e \in queue : e.queuedAt > d.queuedAt}) < rss.totalQueued}

\* the titles are more than 0.6 like each other
Alike(a, b) == LET r == compareTwoStrings(a, b) IN 10 * r.num > 6 * r.den

\* C35: the documents one run of fetchAndQueueRSS enqueues have links
\* different from each other and titles that are not more than 0.6 like each
\* other: of two candidates with one link or with similar titles, offered by
\* one feed or by two, the run enqueues the first only.
C35_CycleSeesItsOwnItems ==
  \A d, e \in ThisCycle :
    d # e => d.url # e.url /\ ~Alike(firstLineTitle(d.text), firstLineTitle(e.text))

\* the run has enqueued the candidate titled T1 and, in a later feed, has
\* passed over the candidate titled T3 (0.8 like T1, another link) that comes
\* first in that feed
C35_Witness ==
  /\ rss.pc = "item" /\ rss.pos = 2 /\ rss.feed > 1
  /\ rss.items[1].title = T3
  /\ \E d \in ThisCycle : firstLineTitle(d.text) = T1
  /\ \A d \in queue : d.url # rss.items[1].link
  /\ \A p \in posts : p.age > 48

\* C36: no two QueueItems that runs of fetchAndQueueRSS have created carry
\* the same url, also when a run of the cron and a run of the route are
\* under way at the same time over the same feeds (specification SpecRace,
\* in which every document of the Queue comes from such a run).
C36_RssUrlsUnique == \A d, e \in queue : d # e => d.url # e.url

\* -------------------------------------------------------------------------
\* Claims about the Queue over time (specifications SpecItem and SpecDrain)
\* -------------------------------------------------------------------------

\* a QueueItem with the id is queued
Queued(id) == \E d \in queue : d.id = id

\* C29: a QueueItem is never updated in place: from its insertion to its
\* deletion none of its fields (id, text, url, media, user, postType,
\* queuedAt) changes, whatever step is taken; a document that is queued
\* before and after a step is the same document.
C29_NeverUpdatedInPlace ==
  [][\A d \in queue : \A e \in queue' : e.id = d.id => e = d]_vars

\* the save of an item has failed and a later run has queued another
\* tweet: the item is still queued, with the fields its run gave it
C29_Witness ==
  \E w \in Workers : \E d, e \in queue :
    /\ wpc[w] = "sleep" /\ d = Item(w) /\ Truthy(geminiData[w])
    /\ d = queueDoc("cron", d.id, d.queuedAt)
    /\ e.queuedAt > d.queuedAt

\* C30: when worker ticks are scheduled fairly and the collaborators answer
\* every call, every QueueItem is removed from the Queue in the end: no id
\* stays queued for ever.
C30_QueueDrains ==
  \A id \in PipeIds : Queued(id) ~> ~Queued(id)

\* -------------------------------------------------------------------------
\* Claims about the order in which the Queue is served (specification
\* SpecStarve)
\* -------------------------------------------------------------------------

\* the firing holds the document of tweet id in its batch
Pulled(id) == \E k \in 1..Len(batch["w1"]) : batch["w1"][k].id = id

\* C31: every QueueItem is eventually pulled into the batch of some worker
\* firing, also when the oldest items fail after their generative call at
\* every firing and stay at the head of the Queue.
C31_NoStarvation == \A id \in Ids : Queued(id) ~> Pulled(id)

\* -------------------------------------------------------------------------
\* Claims about the removal of items (specification SpecItem)
\* -------------------------------------------------------------------------

\* the firing w is at the deletion that follows a failed generative call of
\* the document d
DropsFailed(w, d) == wpc[w] = "drop" /\ Item(w) = d /\ ~Truthy(geminiData[w])

\* C32: a step that removes a QueueItem finds a Post with its tweet id
\* already stored, or is the deletion after the failed generative call of that
\* item; and the step that writes a Post removes nothing from the Queue, so
\* the write comes before the deletion.
C32_PostBeforeDeletion ==
  [][(\A d \in queue \ queue' :
        \/ \E p \in posts : p.tweetId = d.id
        \/ \E w \in Workers : DropsFailed(w, d))
       /\ (posts' # posts => queue' = queue)]_vars

\* a Post is stored, the deletion of its item has been made and the firing
\* has moved on
C32_Witness ==
  \E p \in posts : ~Queued(p.tweetId) /\ wpc["w1"] \in {"idle", "sleep"}

\* -------------------------------------------------------------------------
\* Claims about the batch of a firing (specification SpecFifo)
\* -------------------------------------------------------------------------

\* the step is one of the firing w, which is past its pull
StepOf(w) == wpc[w] # "idle" /\ wpc'[w] # wpc[w]

\* C34: a worker firing acts on the batch it pulled at its start only: the
\* batch has at most maxItems documents of the Queue and stays as pulled
\* until the firing ends, and every document a step of the firing deletes
\* and every Post it writes is of a document of that batch.
C34_OnlyThePulledBatch ==
  [][/\ \A w \in Workers :
          /\ (wpc[w] = "idle" /\ wpc'[w] # "idle") =>
               Len(batch'[w]) <= BatchLimit /\ Range(batch'[w]) \subseteq queue
          /\ (wpc[w] # "idle" /\ wpc'[w] # "idle") => batch'[w] = batch[w]
     /\ \A d \in queue \ queue' : \E w \in Workers : StepOf(w) /\ d \in Range(batch[w])
     /\ \A p \in posts' \ posts :
          \E w \in Workers : StepOf(w) /\ \E d \in Range(batch[w]) : d.id = p.tweetId]_vars

\* a firing pulled maxItems documents and is past the last of them, all
\* three are gone, and the Queue still holds a document, which was beyond
\* the batch or was enqueued while the firing was running
C34_Witness ==
  \E w \in Workers :
    /\ wpc[w] = "sleep" /\ idx[w] = BatchLimit
    /\ queue # {} /\ queue \cap Range(batch[w]) = {}

\* -------------------------------------------------------------------------
\* Claims about the revision with the queue in a file (specification
\* SpecFile)
\* -------------------------------------------------------------------------

\* C37: a tweet the route has appended to the queue file is never lost: a
\* tweet leaves the file only in the write of a worker firing whose head
\* item it is, so the write that follows the generative call takes nothing
\* away that was appended in the meantime.
C37_AppendedNeverLost ==
  [][\A k \in 1..Len(queueFile) :
       queueFile[k] \notin Range(queueFile') =>
         \E w \in Workers : wpc[w] = "save" /\ batch[w][1] = queueFile[k]]_vars

====
